---- MODULE Spec2Model ----
(***************************************************************************)
(* Model of the client-side request / cache / error pipeline of the        *)
(* FantasyHelp frontend (src/frontend/js/api.js):                          *)
(*   - RequestQueue  (api.js 497-533), the concurrency limiter;            *)
(*   - CacheManager  (api.js 315-364), the TTL response cache;             *)
(*   - APIClient     (api.js 10-173),  request / fetchWithRetry / timeout. *)
(* and of the components above it: CachedApiService and ErrorHandler       *)
(* (api.js), LoadingManager, PlayerComparison and the FPLApp controller    *)
(* (src/frontend/js/components.js, src/unnamed/part_000), and the service  *)
(* worker (src/unnamed/part_001).                                          *)
(* Each component has its own specification (SpecQueue, SpecCache,         *)
(* SpecApi, SpecService, SpecSearch, SpecLoaders, SpecErrors,              *)
(* SpecComparison, SpecPoll, SpecWorker; SpecApiUrl and                    *)
(* SpecApiInterceptors exercise the base URL and the interceptor lists of  *)
(* the client); the variables of the other components keep their initial   *)
(* values.                                                                 *)
(* A state of the model is a state in which control is back in             *)
(* the event loop: an action is one run of a handler (a call, a timer      *)
(* callback, the continuation of an await) up to its next suspension.      *)
(***************************************************************************)
EXTENDS Integers, Sequences, FiniteSets, TLC

\* ------------------------------------------------------------- bounds
\* largest maxConcurrent a RequestQueue is constructed with
MaxConcurrentBound == 2
\* number of operations passed to RequestQueue.add()
MaxOps == 4
\* last value of Date.now() the cache is exercised at (ms since construction)
MaxDateNow == 4
\* largest ttl passed to CacheManager.set (ms)
MaxTTL == 2
\* largest config.retryAttempts, config.retryDelay (ms), config.timeout (ms)
\* an APIClient is constructed with
MaxRetryAttempts == 3
MaxRetryDelay == 1
MaxTimeout == 4
\* largest length of this.requestInterceptors and of this.responseInterceptors
MaxInterceptors == 2
\* number of calls of CachedApiService.cachedGet
MaxCalls == 2
\* number of controller actions (handlePlayerSearch, loadInitialData, ...) started
MaxActions == 3
\* number of pages (of page_size players) of the unfiltered player list
MaxPages == 3
\* largest fpl_id of a player, and number of distinct objects describing one player
MaxPlayerId == 3
MaxRefs == 2
\* number of status requests after which a poll that never stops is cut off
MaxPolls == 32

VARIABLES
    \* RequestQueue
    maxConcurrent,  \* this.maxConcurrent
    running,        \* this.running
    queue,          \* this.queue: ids of the pending {request, resolve, reject}
    opState,        \* per operation: "new", "queued", "running", "resolved", "rejected"
    opKind,         \* per operation: "async" (returns a promise) or "throws" (throws when called)
    calls,          \* per operation: number of times request() was invoked
    opResult,       \* per operation: how its own promise settled: "none", "value", "error"
    nextOp,         \* id of the next operation passed to add()
    eventLog,       \* history: <<"add"|"start"|"settle", id>> in program order
    \* CacheManager
    cache,          \* this.cache: key -> {data, expiry}, or NoEntry
    dateNow,        \* Date.now()
    lastGet,        \* history: the get(key) just made: key, time, the entry found, the result
    lastCall,       \* history: the step just taken: the call, its arguments, the map before it
    \* APIClient (one call of request())
    retryAttempts,  \* this.retryAttempts
    retryDelay,     \* this.retryDelay
    timeout,        \* this.timeout
    config,         \* the object passed to the constructor (API_CONFIG by default)
    hostname,       \* window.location.hostname
    baseURL,        \* this.baseURL
    requestInterceptors,   \* this.requestInterceptors, in registration order
    responseInterceptors,  \* this.responseInterceptors, in registration order
    now,            \* ms since request() set its timeout timer
    req,            \* the call: position, attempt, timer, signal, response, outcome, history
    \* CachedApiService (over the CacheManager variables)
    cgCalls,        \* per call of cachedGet: position, arguments, what its get() found
    lastDone,       \* history: the call of cachedGet that settled in the step just taken
    nextCall,       \* id of the next call of cachedGet
    promisedUntil,  \* history, per key: the latest t + ttl over the successful
                    \* cachedGet calls since the key was last deleted or cleared
    \* LoadingManager and FPLApp (the players page)
    activeLoaders,  \* LoadingManager.activeLoaders: the loader ids registered
    overlay,        \* style.display of #loadingOverlay
    actions,        \* per controller action: position, kind, the filters and page it requested
    nextAction,     \* id of the next controller action
    filters,        \* the value of the filter inputs (#positionFilter, ...)
    debounce,       \* whether the debounce timer of a filter change is armed
    currentPageNumber,  \* this.currentPageNumber
    playersData,    \* this.playersData
    rendered,       \* the result shown in #playersGrid (0: none)
    pagination,     \* #playersPagination: display, the disabled flags, the page buttons
    lastAction,     \* history: the step just taken, and this.playersData before it
    \* ErrorHandler
    handled,        \* history: the last two calls of handle: the error, the notification shown
    \* PlayerComparison
    selectedPlayers,  \* this.selectedPlayers
    storage,        \* localStorage 'player_comparison'
    lastCmp,        \* history: the call just made
    \* FPLApp.handleAsyncTeamLoad
    poll,           \* one call: the version of the code, its position, attempts,
                    \* the number of status requests made, how it ended
    \* service worker
    swCache,        \* the paths with a response in the cache CACHE_NAME
    swReq,          \* the request being answered: strategy, position
    lastSw          \* history: the step just taken and what the strategy settled with

varsQueue == <<maxConcurrent, running, queue, opState, opKind, calls, opResult, nextOp, eventLog>>

varsCache == <<cache, dateNow, lastGet, lastCall>>

\* the fields of the client that a request reads and never writes
client == <<retryAttempts, retryDelay, timeout, config, hostname, baseURL>>

interceptors == <<requestInterceptors, responseInterceptors>>

varsApi == <<client, interceptors, now, req>>

varsService == <<cgCalls, lastDone, nextCall, promisedUntil>>

varsLoading == <<activeLoaders, overlay>>

varsController == <<varsLoading, actions, nextAction, filters, debounce, currentPageNumber,
                    playersData, rendered, pagination, lastAction>>

\* the components of the page
varsErrors == <<handled>>

varsComparison == <<selectedPlayers, storage, lastCmp>>

varsPoll == <<poll>>

varsWorker == <<swCache, swReq, lastSw>>

varsUi == <<varsController, varsErrors, varsComparison, varsPoll, varsWorker>>

\* the components above the gateway
varsApp == <<varsService, varsUi>>

vars == <<varsQueue, varsCache, varsApi, varsApp>>

\* what the steps of CachedApiService leave alone
exceptService == <<varsQueue, varsApi, varsUi>>

\* what the steps of the controller leave alone
exceptController ==
    <<varsQueue, varsCache, varsApi, varsService, varsErrors, varsComparison, varsPoll, varsWorker>>

\* what a call of ErrorHandler.handle leaves alone
exceptErrors ==
    <<varsQueue, varsCache, varsApi, varsService, varsController, varsComparison, varsPoll, varsWorker>>

\* what a step of handleAsyncTeamLoad leaves alone
exceptPoll == <<varsQueue, varsCache, varsApi, varsService, varsController, varsErrors,
                varsComparison, varsWorker>>

\* what a step of the service worker leaves alone
exceptWorker == <<varsQueue, varsCache, varsApi, varsService, varsController, varsErrors,
                  varsComparison, varsPoll>>

\* what a call of PlayerComparison leaves alone
exceptComparison ==
    <<varsQueue, varsCache, varsApi, varsService, varsController, varsErrors, varsPoll, varsWorker>>

Ops == 1..MaxOps

\* ------------------------------------------------------ RequestQueue
\* The queue object as a record, so that processNext can be applied to it
\* repeatedly inside one handler.
QueueObj == [running |-> running, queue |-> queue, opState |-> opState,
             calls |-> calls, eventLog |-> eventLog]

\* api.js 516: the early return of processNext
\* (faulty variant: the limit compared with > lets one operation too many in)
MutCannotDispatch(q) == q.running > maxConcurrent \/ q.queue = <<>>
\* (faulty variant: one slot is never used)
MutCannotDispatchEarly(q) == q.running + 1 >= maxConcurrent \/ q.queue = <<>>
CannotDispatch(q) == q.running >= maxConcurrent \/ q.queue = <<>>

\* api.js 520-521: running++ and queue.shift(); the operation is then invoked
\* (faulty variant: pop() instead of shift() takes the newest record)
MutDispatch(q) ==
    LET id == q.queue[Len(q.queue)]
    IN [q EXCEPT !.running = @ + 1,
                 !.queue = SubSeq(@, 1, Len(@) - 1),
                 !.opState[id] = "running",
                 !.calls[id] = @ + 1,
                 !.eventLog = Append(@, <<"start", id>>)]
Dispatch(q) ==
    LET id == Head(q.queue)
    IN [q EXCEPT !.running = @ + 1,
                 !.queue = Tail(@),
                 !.opState[id] = "running",
                 !.calls[id] = @ + 1,
                 !.eventLog = Append(@, <<"start", id>>)]

\* api.js 525-529: resolve(result) or reject(error), then running--
\* (faulty variant: the promise of add() is resolved on failure too)
MutFinishResolve(q, id, ok) ==
    [q EXCEPT !.running = @ - 1,
              !.opState[id] = "resolved",
              !.eventLog = Append(@, <<"settle", id>>)]
\* (faulty variant: running-- on success only, as without the finally block)
MutFinish(q, id, ok) ==
    [q EXCEPT !.running = IF ok THEN @ - 1 ELSE @,
              !.opState[id] = IF ok THEN "resolved" ELSE "rejected",
              !.eventLog = Append(@, <<"settle", id>>)]
Finish(q, id, ok) ==
    [q EXCEPT !.running = @ - 1,
              !.opState[id] = IF ok THEN "resolved" ELSE "rejected",
              !.eventLog = Append(@, <<"settle", id>>)]

\* api.js 515-532: processNext up to its await.  An operation that throws
\* when invoked never suspends: catch and finally run at once and finally
\* calls processNext again.  kinds: how each queued operation behaves.
RECURSIVE ProcessNext(_, _)
ProcessNext(q, kinds) ==
    IF CannotDispatch(q) THEN q
    ELSE LET id == Head(q.queue)
             d == Dispatch(q)
         IN IF kinds[id] = "throws"
            THEN ProcessNext(Finish(d, id, FALSE), kinds)
            ELSE d

SetQueue(q) ==
    /\ running' = q.running
    /\ queue' = q.queue
    /\ opState' = q.opState
    /\ calls' = q.calls
    /\ eventLog' = q.eventLog

\* api.js 504-513: add(requestFunction): push the record, then processNext()
Add(kind) ==
    /\ nextOp <= MaxOps
    /\ opKind' = [opKind EXCEPT ![nextOp] = kind]
    /\ nextOp' = nextOp + 1
    /\ LET pushed == [QueueObj EXCEPT !.queue = Append(@, nextOp),
                                      !.opState[nextOp] = "queued",
                                      !.eventLog = Append(@, <<"add", nextOp>>)]
       IN SetQueue(ProcessNext(pushed, opKind'))
    /\ UNCHANGED <<maxConcurrent, opResult>>

\* api.js 523-531: the continuation of `await request()` when the promise of
\* a running operation settles: resolve/reject, running--, processNext()
Settle(id, ok) ==
    /\ opState[id] = "running"
    /\ opResult' = [opResult EXCEPT ![id] = IF ok THEN "value" ELSE "error"]
    /\ SetQueue(ProcessNext(Finish(QueueObj, id, ok), opKind))
    /\ UNCHANGED <<maxConcurrent, opKind, nextOp>>

\* ------------------------------------------------------ CacheManager
Keys == {"teams", "players_{}"}
\* JavaScript null
Null == "null"
DataValues == {"v1", "v2", Null}
NoEntry == [data |-> "undefined", expiry |-> -1]
NoGet == [key |-> "none", at |-> -1, found |-> NoEntry, result |-> "none"]
NoStats == [active |-> 0, expired |-> 0, total |-> 0]
Call(op, key, data, ttl, stats) ==
    [op |-> op, key |-> key, data |-> data, ttl |-> ttl, at |-> dateNow,
     before |-> cache, stats |-> stats]

\* api.js 325: the expiry test of get (and of getStats, api.js 355)
\* (faulty variant: >= instead of >)
MutIsExpired(item, t) == t >= item.expiry
IsExpired(item, t) == t > item.expiry

\* api.js 321-331: get(key): the value returned
GetResult(c, key, t) ==
    IF c[key] = NoEntry THEN Null
    ELSE IF IsExpired(c[key], t) THEN Null
    ELSE c[key].data

\* api.js 321-331: get(key): the map afterwards (an expired entry is deleted)
\* (faulty variant: get sweeps every expired entry out of the map)
MutGetCache(c, key, t) ==
    [k \in Keys |-> IF c[k] # NoEntry /\ IsExpired(c[k], t) THEN NoEntry ELSE c[k]]
GetCache(c, key, t) ==
    IF c[key] # NoEntry /\ IsExpired(c[key], t)
    THEN [c EXCEPT ![key] = NoEntry]
    ELSE c

CacheGet(key) ==
    /\ lastGet' = [key |-> key, at |-> dateNow, found |-> cache[key],
                   result |-> GetResult(cache, key, dateNow)]
    /\ cache' = GetCache(cache, key, dateNow)
    /\ lastCall' = Call("get", key, "none", 0, NoStats)
    /\ UNCHANGED dateNow

\* api.js 333-338: set(key, data, ttl)
\* (faulty variant: an entry that is present keeps the later of the two expiries)
MutSetEntry(c, key, data, ttl, t) ==
    [c EXCEPT ![key] = [data |-> data,
                        expiry |-> IF c[key] # NoEntry /\ c[key].expiry > t + ttl
                                   THEN c[key].expiry ELSE t + ttl]]
SetEntry(c, key, data, ttl, t) ==
    [c EXCEPT ![key] = [data |-> data, expiry |-> t + ttl]]

CacheSet(key, data, ttl) ==
    /\ cache' = SetEntry(cache, key, data, ttl, dateNow)
    /\ lastGet' = NoGet
    /\ lastCall' = Call("set", key, data, ttl, NoStats)
    /\ UNCHANGED dateNow

\* api.js 340-342: delete(key)
CacheDelete(key) ==
    /\ cache' = [cache EXCEPT ![key] = NoEntry]
    /\ lastGet' = NoGet
    /\ lastCall' = Call("delete", key, "none", 0, NoStats)
    /\ UNCHANGED dateNow

\* api.js 344-346: clear()
CacheClear ==
    /\ cache' = [k \in Keys |-> NoEntry]
    /\ lastGet' = NoGet
    /\ lastCall' = Call("clear", "none", "none", 0, NoStats)
    /\ UNCHANGED dateNow

\* api.js 349-363: getStats(): the numbers of live and of expired entries
GetStats(c, t) ==
    LET expired == {k \in Keys : c[k] # NoEntry /\ IsExpired(c[k], t)}
        present == {k \in Keys : c[k] # NoEntry}
    IN [active |-> Cardinality(present \ expired), expired |-> Cardinality(expired),
        total |-> Cardinality(present)]

CacheGetStats ==
    /\ lastGet' = NoGet
    /\ lastCall' = Call("getStats", "none", "none", 0, GetStats(cache, dateNow))
    /\ UNCHANGED <<cache, dateNow>>

\* the passage of time: Date.now() grows; nothing in CacheManager runs
CacheTick ==
    /\ dateNow < MaxDateNow
    /\ dateNow' = dateNow + 1
    /\ lastGet' = NoGet
    /\ lastCall' = Call("tick", "none", "none", 0, NoStats)
    /\ UNCHANGED cache

\* ------------------------------------------------- CachedApiService
Calls == 1..MaxCalls
\* what a fetcher rejects with
FetcherErrors == {"TypeError", "APIError"}
\* the keys cachedGet is called with
ServiceKeys == {"teams"}
NoCachedGet ==
    [pc |-> "new", key |-> "none", ttl |-> 0, promised |-> FALSE,
     stored |-> "none", evicted |-> FALSE, invoked |-> FALSE, touched |-> FALSE,
     result |-> "none", thrown |-> "none", error |-> "none"]
\* a call that has settled keeps nothing but its position
DoneCachedGet == [NoCachedGet EXCEPT !.pc = "done"]

\* api.js 375: `if (data === null)`: the fetcher is needed
IsMiss(c, key, t) == GetResult(c, key, t) = Null

\* history: another call has stored a value for the key of a call that is
\* waiting for its fetcher
Touch(cs, id, key) ==
    [j \in Calls |->
        IF j # id /\ cs[j].key = key /\ cs[j].pc = "awaiting"
        THEN [cs[j] EXCEPT !.touched = TRUE]
        ELSE cs[j]]

\* api.js 372-377: cachedGet(key, fetcher, ttl) up to `await fetcher()`, or
\* to its return when the cache has the value
CachedGet(key, ttl) ==
    /\ nextCall <= MaxCalls
    /\ CacheGet(key)
    /\ LET miss == IsMiss(cache, key, dateNow)
           call == [NoCachedGet EXCEPT
                       !.pc = IF miss THEN "awaiting" ELSE "returned",
                       !.key = key, !.ttl = ttl,
                       !.promised = dateNow < promisedUntil[key],
                       !.stored = IF cache[key] = NoEntry THEN "none" ELSE cache[key].data,
                       !.evicted = (GetCache(cache, key, dateNow) # cache),
                       !.invoked = miss,
                       !.result = IF miss THEN "none" ELSE GetResult(cache, key, dateNow)]
       IN /\ cgCalls' = [cgCalls EXCEPT ![nextCall] = IF miss THEN call ELSE DoneCachedGet]
          /\ lastDone' = IF miss THEN NoCachedGet ELSE call
    /\ nextCall' = nextCall + 1
    /\ UNCHANGED promisedUntil

\* api.js 377-378, 385: the fetcher resolved: set(key, data, ttl), return data
FetcherResolve(id, data) ==
    /\ cgCalls[id].pc = "awaiting"
    /\ CacheSet(cgCalls[id].key, data, cgCalls[id].ttl)
    /\ cgCalls' = [Touch(cgCalls, id, cgCalls[id].key) EXCEPT ![id] = DoneCachedGet]
    /\ lastDone' = [cgCalls[id] EXCEPT !.pc = "returned", !.result = data]
    /\ promisedUntil' = [promisedUntil EXCEPT ![cgCalls[id].key] =
                             IF dateNow + cgCalls[id].ttl > @ THEN dateNow + cgCalls[id].ttl ELSE @]
    /\ UNCHANGED nextCall

\* api.js 379-382: the fetcher rejected: the error is logged and rethrown
\* (faulty variant: the failure is cached as a null value)
MutRejectCache(c, key, ttl, t) == SetEntry(c, key, Null, ttl, t)
RejectCache(c, key, ttl, t) == c

FetcherReject(id, error) ==
    /\ cgCalls[id].pc = "awaiting"
    /\ cache' = RejectCache(cache, cgCalls[id].key, cgCalls[id].ttl, dateNow)
    /\ lastGet' = NoGet
    /\ lastCall' = Call("reject", cgCalls[id].key, "none", 0, NoStats)
    /\ cgCalls' = [cgCalls EXCEPT ![id] = DoneCachedGet]
    /\ lastDone' = [cgCalls[id] EXCEPT !.pc = "rejected", !.thrown = error, !.error = error]
    /\ UNCHANGED <<dateNow, nextCall, promisedUntil>>

\* api.js 411-425: clearPlayerCache / clearTeamCache: delete(key) on a key
ServiceDelete(key) ==
    /\ CacheDelete(key)
    /\ promisedUntil' = [promisedUntil EXCEPT ![key] = -1]
    /\ lastDone' = NoCachedGet
    /\ UNCHANGED <<cgCalls, nextCall>>

\* api.js 344-346: cacheManager.clear()
ServiceClear ==
    /\ CacheClear
    /\ promisedUntil' = [k \in Keys |-> -1]
    /\ lastDone' = NoCachedGet
    /\ UNCHANGED <<cgCalls, nextCall>>

\* time passes while fetchers are awaited and between calls
ServiceTick ==
    /\ CacheTick
    /\ lastDone' = NoCachedGet
    /\ UNCHANGED <<cgCalls, nextCall, promisedUntil>>

\* ------------------------------------------------------ APIClient
\* api.js 2-7: API_CONFIG (the field the model reads from the object)
API_CONFIG == [baseURL |-> "http://localhost:8000/api/v2"]
\* values of config.baseURL and of window.location.hostname
BaseURLs == {"http://localhost:8000/api/v2", "http://localhost:9000/api/v2", "/api/v2"}
Hostnames == {"localhost", "127.0.0.1", "fpl.example.com"}
\* the url argument of request()
Paths == {"/teams/", "/players/"}

\* api.js 12-24: this.baseURL after the constructor: config.baseURL is
\* assigned and then overwritten according to the host the page is served from
ConstructBaseURL(cfg, host) ==
    IF host = "localhost" \/ host = "127.0.0.1"
    THEN "http://localhost:8000/api/v2"
    ELSE "/api/v2"

\* values of JavaScript: data is null, a string or a parsed object
\* (via: the response interceptors the value has passed through)
NullData == [type |-> "null", val |-> "null", via |-> <<>>]
\* the status of an error that carries none (api.js 132: a raw error is rethrown)
NoStatus == -1

\* api.js 176-183: new APIError(message, status, data = null)
APIError(message, status, data) ==
    [name |-> "APIError", message |-> message, status |-> status, data |-> data]
\* what fetch() rejects with: a transport failure, an aborted signal
TransportError ==
    [name |-> "TypeError", message |-> "Failed to fetch", status |-> NoStatus, data |-> NullData]
AbortError ==
    [name |-> "AbortError", message |-> "The user aborted a request.", status |-> NoStatus, data |-> NullData]
\* what response.json() rejects with
ParseError ==
    [name |-> "SyntaxError", message |-> "Unexpected token", status |-> NoStatus, data |-> NullData]
NoError == [name |-> "none", message |-> "", status |-> NoStatus, data |-> NullData]

\* responses of the remote server
Statuses == {200, 404, 408, 503}
StatusTexts == {"Request timeout", "Service Unavailable"}
ContentTypes == {"application/json; charset=utf-8", "text/html"}
Bodies == {"{\"message\":\"Not found.\"}", "{}", "null", "<html>"}
Responses == [status : Statuses, statusText : StatusTexts, contentType : ContentTypes, body : Bodies]
NoResponse == [status |-> NoStatus, statusText |-> "", contentType |-> "", body |-> ""]

\* api.js 99: response.ok
Ok(status) == status >= 200 /\ status <= 299

\* api.js 88: contentType.includes('application/json')
IsJson(contentType) == contentType = "application/json; charset=utf-8"

\* api.js 89: response.json() throws on a body that is not JSON
JsonFails(body) == body = "<html>"

\* api.js 87-92: the decoded body (json() or text())
Decode(resp) ==
    IF IsJson(resp.contentType)
    THEN IF resp.body = "null" THEN NullData
         ELSE [type |-> "object", val |-> resp.body, via |-> <<>>]
    ELSE [type |-> "string", val |-> resp.body, via |-> <<>>]

\* api.js 100: result.data?.message || response.statusText
ErrorMessage(resp, data) ==
    IF data.type = "object" /\ data.via = <<>> /\ data.val = "{\"message\":\"Not found.\"}"
    THEN "Not found."
    ELSE resp.statusText

NoOutcome == [kind |-> "pending", value |-> NullData, error |-> NoError, at |-> -1]

\* api.js 55-60: the config of a call: method, headers, url
NoConfig == [method |-> "", url |-> [base |-> "", path |-> ""], headers |-> {}, via |-> <<>>]
NewConfig(path) ==
    [method |-> "GET", url |-> [base |-> baseURL, path |-> path], headers |-> {}, via |-> <<>>]

\* a call of request() that has not been made yet
NewRequest ==
    [pc |-> "idle", attempt |-> 0, timerArmed |-> FALSE, aborted |-> FALSE,
     abortedAttempt |-> 0, abortedAt |-> -1, delayUntil |-> -1,
     response |-> NoResponse, outcome |-> NoOutcome,
     fetches |-> <<>>, delays |-> <<>>,
     config |-> NoConfig, idx |-> 0, intercepts |-> <<>>]

\* history: the result of the fetch in flight: the status of the response it
\* resolved with, or the name of the error it rejected with
FetchResult(r, status, error) ==
    [r EXCEPT !.fetches[Len(r.fetches)].status = status,
              !.fetches[Len(r.fetches)].error = error]

\* api.js 105-113: the catch of request(): clearTimeout, AbortError -> 408
\* (faulty variant: the abort error is rethrown as it is)
MutRequestCatch(r, error, t) ==
    [r EXCEPT !.pc = "done", !.timerArmed = FALSE,
              !.outcome = [kind |-> "rejected", value |-> NullData,
                           error |-> error, at |-> t]]
RequestCatch(r, error, t) ==
    [r EXCEPT !.pc = "done", !.timerArmed = FALSE,
              !.outcome = [kind |-> "rejected", value |-> NullData,
                           error |-> IF error.name = "AbortError"
                                     THEN APIError("Request timeout", 408, NullData)
                                     ELSE error,
                           at |-> t]]

\* api.js 121: retry on a 5xx response
\* (faulty variant: attempt <= retryAttempts allows one retry too many)
MutRetryResponse(status, a) == status >= 500 /\ a <= retryAttempts
\* (faulty variant: the status test is missing, every response is retried)
MutRetryAnyResponse(status, a) == a < retryAttempts
RetryResponse(status, a) == status >= 500 /\ a < retryAttempts

\* api.js 128: retry on a rejected fetch (whatever the error)
RetryError(error, a) == a < retryAttempts

\* api.js 122, 129: this.delay(this.retryDelay * attempt)
\* (faulty variant: a constant delay, the attempt number is not a factor)
MutDelay(r, t) ==
    [r EXCEPT !.pc = "delaying",
              !.delayUntil = t + retryDelay,
              !.delays = Append(@, [at |-> t, ms |-> retryDelay,
                                    afterAbort |-> r.aborted])]
Delay(r, t) ==
    [r EXCEPT !.pc = "delaying",
              !.delayUntil = t + retryDelay * r.attempt,
              !.delays = Append(@, [at |-> t, ms |-> retryDelay * r.attempt,
                                    afterAbort |-> r.aborted])]

\* api.js 127-133: the catch of fetchWithRetry
\* (faulty variant: the error is rethrown at once, without the retry branch)
MutFetchCatch(r, error, t) ==
    LET r1 == FetchResult(r, NoStatus, error.name)
    IN RequestCatch(r1, error, t)
FetchCatch(r, error, t) ==
    LET r1 == FetchResult(r, NoStatus, error.name)
    IN IF RetryError(error, r.attempt) THEN Delay(r1, t) ELSE RequestCatch(r1, error, t)

\* api.js 118-126 and 77: fetch resolved with a response; request() clears the
\* timer when fetchWithRetry returns it
\* (faulty variant: every status >= 400 is retried)
MutFetchThen(r, resp, t) ==
    LET r1 == FetchResult(r, resp.status, "")
    IN IF resp.status >= 400 /\ r.attempt < retryAttempts
       THEN Delay(r1, t)
       ELSE [r1 EXCEPT !.pc = "reading", !.timerArmed = FALSE, !.response = resp]
FetchThen(r, resp, t) ==
    LET r1 == FetchResult(r, resp.status, "")
    IN IF RetryResponse(resp.status, r.attempt)
       THEN Delay(r1, t)
       ELSE [r1 EXCEPT !.pc = "reading", !.timerArmed = FALSE, !.response = resp]

\* api.js 116-118: fetchWithRetry(url, options, attempt) calls fetch; with a
\* signal that is already aborted fetch rejects at once with AbortError
CallFetch(r, a, t) ==
    LET r1 == [r EXCEPT !.attempt = a,
                        !.fetches = Append(@, [at |-> t, afterAbort |-> r.aborted,
                                               status |-> NoStatus, error |-> "pending",
                                               config |-> r.config])]
    IN IF r.aborted THEN FetchCatch(r1, AbortError, t) ELSE [r1 EXCEPT !.pc = "fetching"]

\* the interceptors an application registers besides the default one
InterceptorNames == {"auth", "trace"}
\* api.js 36-43: the default interceptor is a plain function; the others
\* are async functions, whose promise settles in a later step
IsAsync(n) == n # "headers"

\* api.js 63, 95: `for (const interceptor of ...)`: the i-th interceptor run
\* (faulty variant: the list is walked from its end)
MutInterceptorAt(list, i) == list[Len(list) + 1 - i]
InterceptorAt(list, i) == list[i]

\* the headers an interceptor adds (api.js 37-41 for the default one)
HeadersOf(n) ==
    IF n = "headers" THEN {"Content-Type", "Accept"}
    ELSE IF n = "auth" THEN {"Authorization"}
    ELSE {"X-Trace-Id"}

\* what a request interceptor returns for the config it received
ApplyRequestInterceptor(n, cfg) ==
    [cfg EXCEPT !.headers = @ \cup HeadersOf(n), !.via = Append(@, n)]

\* what a response interceptor returns for the result it received: the data
\* wrapped in an envelope of its own
ApplyResponseInterceptor(n, data) ==
    [type |-> "object", val |-> data.val, via |-> Append(data.via, n)]

\* api.js 64: `config = await interceptor(config)`: the assignment
InterceptorReturn(r) ==
    LET c == r.intercepts[Len(r.intercepts)]
    IN [r EXCEPT !.config = ApplyRequestInterceptor(c.name, c.received)]

\* api.js 68-75: the timeout timer is set, then the first fetch attempt
StartFetch(r, t) == CallFetch([r EXCEPT !.timerArmed = TRUE], 1, t)

\* api.js 63-75: the loop over the request interceptors from the i-th on, up
\* to the first await that suspends; after the loop the timer and the fetch
RECURSIVE RunRequestInterceptors(_, _, _)
RunRequestInterceptors(r, i, t) ==
    IF i > Len(requestInterceptors) THEN StartFetch(r, t)
    ELSE LET n == InterceptorAt(requestInterceptors, i)
             called == [r EXCEPT !.idx = i,
                                 !.intercepts = Append(@, [name |-> n, received |-> r.config])]
         IN IF IsAsync(n) THEN [called EXCEPT !.pc = "intercepting"]
            ELSE RunRequestInterceptors(InterceptorReturn(called), i + 1, t)

\* api.js 95-97: the loop over the response interceptors from the i-th on
RECURSIVE RunResponseInterceptors(_, _)
RunResponseInterceptors(data, i) ==
    IF i > Len(responseInterceptors) THEN data
    ELSE RunResponseInterceptors(
             ApplyResponseInterceptor(InterceptorAt(responseInterceptors, i), data), i + 1)

\* api.js 79-103: decode the body, run the response interceptors, then throw
\* on a non-2xx status or return
\* (faulty variant: the error carries the body as decoded, not as returned
\* by the response interceptors)
MutReadBody(r, t) ==
    LET resp == r.response
        data == RunResponseInterceptors(Decode(resp), 1)
    IN IF IsJson(resp.contentType) /\ JsonFails(resp.body)
       THEN RequestCatch(r, ParseError, t)
       ELSE IF ~Ok(resp.status)
       THEN RequestCatch(r, APIError(ErrorMessage(resp, data), resp.status, Decode(resp)), t)
       ELSE [r EXCEPT !.pc = "done",
                      !.outcome = [kind |-> "resolved", value |-> data,
                                   error |-> NoError, at |-> t]]
ReadBody(r, t) ==
    LET resp == r.response
        data == RunResponseInterceptors(Decode(resp), 1)
    IN IF IsJson(resp.contentType) /\ JsonFails(resp.body)
       THEN RequestCatch(r, ParseError, t)
       ELSE IF ~Ok(resp.status)
       THEN RequestCatch(r, APIError(ErrorMessage(resp, data), resp.status, data), t)
       ELSE [r EXCEPT !.pc = "done",
                      !.outcome = [kind |-> "resolved", value |-> data,
                                   error |-> NoError, at |-> t]]

\* api.js 46-48: addRequestInterceptor(interceptor), before the call is made
AddRequestInterceptor(n) ==
    /\ req.pc = "idle"
    /\ Len(requestInterceptors) < MaxInterceptors
    /\ requestInterceptors' = Append(requestInterceptors, n)
    /\ UNCHANGED <<client, responseInterceptors, now, req>>

\* api.js 50-52: addResponseInterceptor(interceptor), before the call is made
AddResponseInterceptor(n) ==
    /\ req.pc = "idle"
    /\ Len(responseInterceptors) < MaxInterceptors
    /\ responseInterceptors' = Append(responseInterceptors, n)
    /\ UNCHANGED <<client, requestInterceptors, now, req>>

\* api.js 54-75: request(url, options): build the config, run the request
\* interceptors, set the timer, first fetch attempt
ApiRequest(path) ==
    /\ req.pc = "idle"
    /\ now' = 0
    /\ req' = RunRequestInterceptors([NewRequest EXCEPT !.config = NewConfig(path)], 1, 0)
    /\ UNCHANGED <<client, interceptors>>

\* api.js 64: the promise of the request interceptor awaited settles: the
\* loop goes on
InterceptorDone ==
    /\ req.pc = "intercepting"
    /\ req' = RunRequestInterceptors(InterceptorReturn(req), req.idx + 1, now)
    /\ UNCHANGED <<client, interceptors, now>>

\* the server answers the attempt in flight
FetchRespond(resp) ==
    /\ req.pc = "fetching"
    /\ req' = FetchThen(req, resp, now)
    /\ UNCHANGED <<client, interceptors, now>>

\* the attempt in flight fails in transport
FetchFail ==
    /\ req.pc = "fetching"
    /\ req' = FetchCatch(req, TransportError, now)
    /\ UNCHANGED <<client, interceptors, now>>

\* api.js 69: the timeout timer fires: controller.abort(); a fetch in flight
\* rejects with AbortError
TimeoutFire ==
    /\ req.timerArmed /\ req.pc \in {"fetching", "delaying"}
    /\ now >= timeout
    /\ LET r1 == [req EXCEPT !.timerArmed = FALSE, !.aborted = TRUE, !.abortedAt = now,
                             !.abortedAttempt = IF req.pc = "fetching" THEN req.attempt ELSE 0]
       IN req' = IF req.pc = "fetching" THEN FetchCatch(r1, AbortError, now) ELSE r1
    /\ UNCHANGED <<client, interceptors, now>>

\* api.js 136-138, 123, 130: the delay timer fires: the next attempt
DelayDone ==
    /\ req.pc = "delaying"
    /\ now >= req.delayUntil
    /\ req' = CallFetch(req, req.attempt + 1, now)
    /\ UNCHANGED <<client, interceptors, now>>

\* api.js 86-103: the body of the final response has arrived
ReadDone ==
    /\ req.pc = "reading"
    /\ req' = ReadBody(req, now)
    /\ UNCHANGED <<client, interceptors, now>>

\* the horizon of the clock: past every timer the call can set (the timeout,
\* then every retry delay)
MaxNow == MaxTimeout + (MaxRetryDelay * MaxRetryAttempts * (MaxRetryAttempts - 1)) \div 2 + 1

\* time passes while the call waits; a timer fires when it is due
ApiTick ==
    /\ req.pc \in {"fetching", "delaying", "reading"}
    /\ now < MaxNow
    /\ ~(req.timerArmed /\ now >= timeout)
    /\ ~(req.pc = "delaying" /\ now >= req.delayUntil)
    /\ now' = now + 1
    /\ UNCHANGED <<client, interceptors, req>>

\* ------------------------------------------- LoadingManager and FPLApp
\* The controller actions that register a loader (components.js 2533-2550,
\* 2864-2907, 3441-3465, 3479-3514, 3806-3827, 3889-3915).  An action is in
\* flight from its LoadingManager.show() to the continuation of its await.
ActionIds == 1..MaxActions
ActionKinds == {"loadInitialData", "loadTeamData", "handlePlayerSearch",
                "handleRefreshData", "loadSuggestionsPage", "loadAnalyticsPage"}
\* the values of the filter inputs: "" is no filter
Filters == {"", "GKP"}

NoAction == [pc |-> "new", kind |-> "none", filter |-> "", page |-> 0]
DoneAction == [NoAction EXCEPT !.pc = "done"]
NewAction(kind, filter, page) ==
    [pc |-> "awaiting", kind |-> kind, filter |-> filter, page |-> page]

\* components.js 759-772: show(message, id = null) with no id; the id is
\* Utils.generateId(), a fresh one: the model takes the id of the action
Show(loaders, id) == loaders \cup {id}

\* components.js 786-799: hide(id) with an id
Hide(loaders, id) == loaders \ {id}

\* components.js 794-798: the overlay is hidden only when no loader is left
OverlayAfterHide(loaders, display) == IF Cardinality(loaders) = 0 THEN "none" ELSE display

\* whether LoadingManager.hide(loaderId) is reached when the fetch of the
\* action fails: it is in a finally block everywhere but in loadInitialData,
\* where it is the last statement of the try block (components.js 2544)
HidesOnFailure(kind) == kind # "loadInitialData"

\* the loaders after the action id of this kind has finished
LoadersAfter(loaders, id, kind, ok) ==
    IF ok \/ HidesOnFailure(kind) THEN Hide(loaders, id) ELSE loaders

\* the number of pages of the player list under a filter, and the paginated
\* response to a request for one of them (components.js 3494-3498, 3677-3679:
\* count, next and previous of the result)
TotalPagesOf(filter) == IF filter = "" THEN MaxPages ELSE 1
NoData == [id |-> 0, filter |-> "", page |-> 0, count |-> 0, next |-> FALSE, previous |-> FALSE]
Result(id, filter, page) ==
    [id |-> id, filter |-> filter, page |-> page, count |-> 20 * TotalPagesOf(filter),
     next |-> page < TotalPagesOf(filter), previous |-> page > 1]

\* Math.ceil(count / 20)
CeilDiv20(n) == (n + 19) \div 20

Max2(a, b) == IF a >= b THEN a ELSE b
Min2(a, b) == IF a <= b THEN a ELSE b

\* components.js 3701-3722: the page buttons updatePageNumbers creates
PageNumbers(current, totalPages) ==
    LET startPage == Max2(1, current - 2)
        endPage == Min2(totalPages, startPage + 4)
        start == IF endPage - startPage < 4 THEN Max2(1, endPage - 4) ELSE startPage
    IN  start..endPage

\* components.js 3673-3699: updatePagination(result)
UpdatePagination(pag, result, current) ==
    LET totalPages == CeilDiv20(result.count)
    IN  IF totalPages <= 1
        THEN [pag EXCEPT !.display = "none"]
        ELSE [display |-> "flex", prevDisabled |-> ~result.previous,
              nextDisabled |-> ~result.next, numbers |-> PageNumbers(current, totalPages)]

\* components.js 3500: which result this.playersData holds once the response
\* of search id has arrived
MutPlayersAfter(data, result) == IF result.id > data.id THEN result ELSE data

PlayersAfter(data, result) == result

ActionEvent(op, id, kind) == [op |-> op, id |-> id, kind |-> kind, before |-> playersData]

\* components.js 3479-3499: handlePlayerSearch up to its await: show(), then
\* collectFilters() and the request for page this.currentPageNumber
HandlePlayerSearch(filter, page) ==
    /\ nextAction <= MaxActions
    /\ activeLoaders' = Show(activeLoaders, nextAction)
    /\ overlay' = "flex"
    /\ actions' = [actions EXCEPT ![nextAction] = NewAction("handlePlayerSearch", filter, page)]
    /\ lastAction' = ActionEvent("start", nextAction, "handlePlayerSearch")
    /\ nextAction' = nextAction + 1
    /\ UNCHANGED <<playersData, rendered, pagination>>

\* components.js 2624-2638: a change event of a filter input arms the
\* debounce timer
FilterChange(filter) ==
    /\ filter # filters
    /\ filters' = filter
    /\ debounce' = TRUE
    /\ lastAction' = ActionEvent("change", 0, "none")
    /\ UNCHANGED <<varsLoading, actions, nextAction, currentPageNumber, playersData,
                   rendered, pagination>>

\* components.js 2634-2636: the debounce timer fires
DebounceFire ==
    /\ debounce
    /\ debounce' = FALSE
    /\ HandlePlayerSearch(filters, currentPageNumber)
    /\ UNCHANGED <<filters, currentPageNumber>>

\* components.js 3582-3609: clearFilters()
ClearFilters ==
    /\ filters' = ""
    /\ currentPageNumber' = 1
    /\ HandlePlayerSearch("", 1)
    /\ UNCHANGED debounce

\* components.js 3467-3477: loadPlayersPage() with no players loaded yet
LoadPlayersPage ==
    /\ playersData = NoData
    /\ HandlePlayerSearch(filters, currentPageNumber)
    /\ UNCHANGED <<filters, debounce, currentPageNumber>>

\* components.js 3724-3734: changePage(pageNumber)
ChangePage(pageNumber) ==
    /\ pageNumber # currentPageNumber
    /\ currentPageNumber' = pageNumber
    /\ HandlePlayerSearch(filters, pageNumber)
    /\ UNCHANGED <<filters, debounce>>

\* components.js 2666-2677: a click on #prevPage, #nextPage; a disabled or
\* hidden button receives no click
ClickPrev ==
    /\ pagination.display = "flex"
    /\ ~pagination.prevDisabled
    /\ ChangePage(currentPageNumber - 1)

ClickNext ==
    /\ pagination.display = "flex"
    /\ ~pagination.nextDisabled
    /\ ChangePage(currentPageNumber + 1)

\* components.js 3714-3719: a click on a page button
ClickPageNumber(i) ==
    /\ pagination.display = "flex"
    /\ i \in pagination.numbers
    /\ ChangePage(i)

\* components.js 3499-3512: the request of search id is answered with the
\* page it asked for
SearchResolve(id) ==
    /\ actions[id].pc = "awaiting"
    /\ actions[id].kind = "handlePlayerSearch"
    /\ actions[id].page \in 1..TotalPagesOf(actions[id].filter)
    /\ LET result == Result(id, actions[id].filter, actions[id].page)
       IN  /\ playersData' = PlayersAfter(playersData, result)
           /\ rendered' = result.id
           /\ pagination' = UpdatePagination(pagination, result, currentPageNumber)
    /\ activeLoaders' = LoadersAfter(activeLoaders, id, "handlePlayerSearch", TRUE)
    /\ overlay' = OverlayAfterHide(activeLoaders', overlay)
    /\ actions' = [actions EXCEPT ![id] = DoneAction]
    /\ lastAction' = ActionEvent("resolve", id, "handlePlayerSearch")
    /\ UNCHANGED <<nextAction, filters, debounce, currentPageNumber>>

\* components.js 3507-3512: the request of search id fails
SearchReject(id) ==
    /\ actions[id].pc = "awaiting"
    /\ actions[id].kind = "handlePlayerSearch"
    /\ activeLoaders' = LoadersAfter(activeLoaders, id, "handlePlayerSearch", FALSE)
    /\ overlay' = OverlayAfterHide(activeLoaders', overlay)
    /\ actions' = [actions EXCEPT ![id] = DoneAction]
    /\ lastAction' = ActionEvent("reject", id, "handlePlayerSearch")
    /\ UNCHANGED <<nextAction, filters, debounce, currentPageNumber, playersData,
                   rendered, pagination>>

\* components.js 2539, 2865, 3442, 3812, 3892: an action of another kind up
\* to its await
StartAction(kind) ==
    /\ kind # "handlePlayerSearch"
    /\ nextAction <= MaxActions
    /\ activeLoaders' = Show(activeLoaders, nextAction)
    /\ overlay' = "flex"
    /\ actions' = [actions EXCEPT ![nextAction] = NewAction(kind, "", 0)]
    /\ lastAction' = ActionEvent("start", nextAction, kind)
    /\ nextAction' = nextAction + 1
    /\ UNCHANGED <<filters, debounce, currentPageNumber, playersData, rendered, pagination>>

\* components.js 2541-2548, 2867-2903, 3444-3464, 3814-3826, 3894-3914: the
\* fetch of the action is fulfilled (ok) or rejected
ActionSettle(id, ok) ==
    /\ actions[id].pc = "awaiting"
    /\ actions[id].kind # "handlePlayerSearch"
    /\ activeLoaders' = LoadersAfter(activeLoaders, id, actions[id].kind, ok)
    /\ overlay' = IF ok \/ HidesOnFailure(actions[id].kind)
                  THEN OverlayAfterHide(activeLoaders', overlay) ELSE overlay
    /\ actions' = [actions EXCEPT ![id] = DoneAction]
    /\ lastAction' = ActionEvent(IF ok THEN "resolve" ELSE "reject", id, actions[id].kind)
    /\ UNCHANGED <<nextAction, filters, debounce, currentPageNumber, playersData,
                   rendered, pagination>>

\* ------------------------------------------------------ ErrorHandler
\* api.js 176-183: the errors handed to ErrorHandler.handle.  An APIError
\* carries status and data; data is null (NoPayload) or the parsed body of the response,
\* of which handle reads the field message (a missing field and "" are both
\* falsy and are both "").
ErrorStatuses == {400, 404, 408, 429, 500, 503}
ErrorMessages == {"", "Bad Request", "Failed to fetch"}
NoPayload == [isNull |-> TRUE, message |-> "", detail |-> ""]
ErrorData == {NoPayload} \cup [isNull : {FALSE}, message : {"", "Name is required"},
                              detail : {"", "Invalid page."}]
APIErrors == [class : {"APIError"}, name : {"APIError"}, status : ErrorStatuses,
              message : {"", "Bad Request"}, data : ErrorData]
OtherErrors == [class : {"Error"}, name : {"TypeError", "NetworkError"}, status : {0},
                message : ErrorMessages, data : {NoPayload}]
Errors == APIErrors \cup OtherErrors

\* a || b on strings
OrElse(a, b) == IF a # "" THEN a ELSE b

\* message.includes('fetch')
IncludesFetch(message) == message = "Failed to fetch"

\* api.js 442: error.data?.message
MutDataMessage(data) == IF data.isNull THEN "" ELSE OrElse(data.message, data.detail)

DataMessage(data) == IF data.isNull THEN "" ELSE data.message

\* api.js 433-471: the {message, type} that handle(error) shows and returns
Handle(error) ==
    IF error.class = "APIError"
    THEN CASE error.status = 400 ->
                 [message |-> OrElse(DataMessage(error.data), "Invalid request data"),
                  type |-> "warning"]
           [] error.status = 404 -> [message |-> "Resource not found", type |-> "warning"]
           [] error.status = 429 ->
                 [message |-> "Too many requests. Please wait a moment.", type |-> "warning"]
           [] error.status = 500 ->
                 [message |-> "Server error. Please try again later.", type |-> "error"]
           [] error.status = 503 ->
                 [message |-> "Service temporarily unavailable", type |-> "error"]
           [] OTHER ->
                 [message |-> OrElse(error.message, "An unexpected error occurred"),
                  type |-> "error"]
    ELSE IF error.name = "NetworkError" \/ IncludesFetch(error.message)
         THEN [message |-> "Network error. Please check your connection.", type |-> "warning"]
         ELSE [message |-> "An unexpected error occurred", type |-> "error"]

\* one call of ErrorHandler.handle(error): the notification is shown; the
\* history keeps the last two calls
HandleError(error) ==
    handled' = <<handled[2], [error |-> error, notification |-> Handle(error)]>>

\* ------------------------------------------------------ PlayerComparison
\* components.js 1287: selectedPlayers is a Set of player objects, compared
\* by identity.  The object passed to add() or toggle() is the one a card holds
\* or the one the inline handler of the modal builds from its JSON text
\* (components.js 932, 1056, 1260): ref tells apart the objects that describe
\* the same player.
maxPlayers == 4
PlayerIds == 1..MaxPlayerId
Players == [ref : 1..MaxRefs, fpl_id : PlayerIds]

\* components.js 1333-1338: isSelected(playerId)
IsSelected(selected, playerId) == \E player \in selected : player.fpl_id = playerId

\* components.js 1303-1313: the Set after add(player)
AddPlayer(selected, player) ==
    IF Cardinality(selected) >= maxPlayers THEN selected ELSE selected \cup {player}

\* components.js 1316-1322: the Set after remove(playerId): the first entry
\* with this fpl_id in insertion order is deleted; the model keeps no order
\* and takes any of them
RemovePlayer(selected, playerId) ==
    IF IsSelected(selected, playerId)
    THEN {selected \ {player} : player \in {p \in selected : p.fpl_id = playerId}}
    ELSE {selected}

CmpEvent(op, id) == [op |-> op, id |-> id]

\* components.js 1303-1313: add(player), with saveComparison()
ComparisonAdd(player) ==
    /\ selectedPlayers' = AddPlayer(selectedPlayers, player)
    /\ storage' = IF Cardinality(selectedPlayers) >= maxPlayers THEN storage
                  ELSE selectedPlayers'
    /\ lastCmp' = CmpEvent("add", player.fpl_id)

\* components.js 1315-1324: remove(playerId), with saveComparison()
ComparisonRemove(playerId) ==
    /\ selectedPlayers' \in RemovePlayer(selectedPlayers, playerId)
    /\ storage' = selectedPlayers'
    /\ lastCmp' = CmpEvent("remove", playerId)

\* components.js 1294-1300: toggle(player)
ComparisonToggle(player) ==
    /\ IF IsSelected(selectedPlayers, player.fpl_id)
       THEN /\ selectedPlayers' \in RemovePlayer(selectedPlayers, player.fpl_id)
            /\ storage' = selectedPlayers'
       ELSE /\ selectedPlayers' = AddPlayer(selectedPlayers, player)
            /\ storage' = IF Cardinality(selectedPlayers) >= maxPlayers THEN storage
                          ELSE selectedPlayers'
    /\ lastCmp' = CmpEvent("toggle", player.fpl_id)

\* components.js 1326-1330: clear(), with saveComparison()
ComparisonClear ==
    /\ selectedPlayers' = {}
    /\ storage' = {}
    /\ lastCmp' = CmpEvent("clear", 0)

\* components.js 1290-1292, 1559-1570: the page is loaded again: init() fills
\* a new Set with the objects parsed from localStorage
ComparisonInit ==
    /\ selectedPlayers' = storage
    /\ lastCmp' = CmpEvent("init", 0)
    /\ UNCHANGED storage

\* ------------------------------------------------ handleAsyncTeamLoad
\* The repository holds two versions of FPLApp.handleAsyncTeamLoad:
\* components.js 2909-2950 counts its attempts, unnamed/part_000 161-185
\* does not.
maxAttempts == 30
AppVersions == {"components.js", "part_000"}
TaskStatuses == {"SUCCESS", "FAILURE", "PENDING"}

\* components.js 2936: whether checkStatus sets the timer for another poll
\* when the task is still processing; part_000 177-180 always does
PollsAgain(version, attempts) == version = "part_000" \/ attempts < maxAttempts

\* components.js 2913-2916, part_000 162-164: checkStatus() up to its await:
\* one more request for the status of the task
CheckStatus(p) ==
    [p EXCEPT !.pc = "status", !.attempts = IF p.version = "components.js" THEN @ + 1 ELSE @,
              !.requests = @ + 1]

\* components.js 2949, part_000 184: handleAsyncTeamLoad calls checkStatus()
HandleAsyncTeamLoad ==
    /\ poll.pc = "idle"
    /\ poll' = CheckStatus([poll EXCEPT !.attempts = 0])

\* components.js 2917-2943, part_000 164-180: the status request is answered
StatusRespond(status) ==
    /\ poll.pc = "status"
    /\ poll' = CASE status = "SUCCESS" -> [poll EXCEPT !.pc = "team"]
                 [] status = "FAILURE" -> [poll EXCEPT !.pc = "stopped", !.outcome = "failure"]
                 [] OTHER ->
                      IF PollsAgain(poll.version, poll.attempts)
                      THEN [poll EXCEPT !.pc = "timer"]
                      ELSE [poll EXCEPT !.pc = "stopped", !.outcome = "timed out"]

\* components.js 2944-2947, part_000 181-183: the status request fails
StatusError ==
    /\ poll.pc = "status"
    /\ poll' = [poll EXCEPT !.pc = "stopped", !.outcome = "error"]

\* components.js 2922-2930, 2944-2947: the request for the team, made after
\* SUCCESS, is answered or fails
TeamRespond(ok) ==
    /\ poll.pc = "team"
    /\ poll' = [poll EXCEPT !.pc = "stopped", !.outcome = IF ok THEN "success" ELSE "error"]

\* components.js 2938, part_000 179: the timer set by setTimeout(checkStatus,
\* 2000) fires
PollTimerFire ==
    /\ poll.pc = "timer"
    /\ poll.requests < MaxPolls
    /\ poll' = CheckStatus(poll)

\* ------------------------------------------------------ service worker
\* src/unnamed/part_001.  request.url is an absolute URL; the model names a
\* request by its path.  A cache entry is named by the path it was stored for.
Urls == {"/", "/players", "/api/v2/teams/", "/api/v2/sync/"}
STATIC_CACHE_URLS == {"/", "/css/styles.css", "/js/api.js"}
cacheableEndpoints == {"/teams/", "/players/", "/analytics/", "/health/"}
Requests == [url : Urls, mode : {"navigate", "cors"}, method : {"GET", "POST"}]

\* url.includes(part) for the parts the worker looks for: every absolute URL
\* contains '/'
UrlIncludes(url, part) ==
    CASE part = "/" -> TRUE
      [] part = "/api/" -> url \in {"/api/v2/teams/", "/api/v2/sync/"}
      [] part = "/teams/" -> url = "/api/v2/teams/"
      [] OTHER -> url = part

\* part_001 72-81: the strategy the fetch listener answers a GET request with
Strategy(request) ==
    IF UrlIncludes(request.url, "/api/") THEN "networkFirst"
    ELSE IF \E staticUrl \in STATIC_CACHE_URLS : UrlIncludes(request.url, staticUrl)
         THEN "cacheFirst"
         ELSE "networkFirstWithFallback"

\* part_001 176-186
ShouldCacheAPIResponse(url) == \E endpoint \in cacheableEndpoints : UrlIncludes(url, endpoint)

\* caches.match(key): the cached response, or undefined
Match(cached, key, hit) == IF key \in cached THEN hit ELSE "undefined"

\* part_001 165: promise || response: a Promise is an object, hence truthy,
\* whatever it resolves with
PromiseOr(promised, response) == promised

\* part_001 157-172: what networkFirstWithFallback settles with once fetch
\* has rejected
FallbackResult(cached, request) ==
    IF request.url \in cached THEN "cached"
    ELSE IF request.mode = "navigate"
         THEN PromiseOr(Match(cached, "/", "cached /"), "offline page")
         ELSE "rejected"

\* part_001 123-143: what networkFirst settles with once fetch has rejected
NetworkFirstResult(cached, request) ==
    IF request.url \in cached THEN "cached" ELSE "json 503"

\* what the strategy settles with once fetch has rejected
OfflineResult(strategy, cached, request) ==
    CASE strategy = "networkFirst" -> NetworkFirstResult(cached, request)
      [] strategy = "networkFirstWithFallback" -> FallbackResult(cached, request)
      [] OTHER -> "rejected"

\* the cache after the strategy has received a network response
CacheAfterResponse(strategy, cached, request, ok) ==
    IF ok /\ (strategy = "networkFirst" => ShouldCacheAPIResponse(request.url))
    THEN cached \cup {request.url}
    ELSE cached

NoSwRequest == [pc |-> "idle", strategy |-> "none", url |-> "/", mode |-> "cors", method |-> "GET"]
SwEvent(op, r, outcome) ==
    [op |-> op, strategy |-> r.strategy, url |-> r.url, mode |-> r.mode, method |-> r.method,
     outcome |-> outcome]

\* a strategy is called with a request: cacheFirst answers from the cache
\* (part_001 87-90), the others start with fetch(request)
CallStrategy(strategy, request) ==
    LET r == [pc |-> "fetching", strategy |-> strategy, url |-> request.url,
              mode |-> request.mode, method |-> request.method]
    IN  /\ swReq.pc = "idle"
        /\ IF strategy = "cacheFirst" /\ request.url \in swCache
           THEN swReq' = NoSwRequest /\ lastSw' = SwEvent("call", r, "cached")
           ELSE swReq' = r /\ lastSw' = SwEvent("call", r, "none")
        /\ UNCHANGED swCache

\* part_001 19-36: install: cache.addAll stores every static URL or, when one
\* of them cannot be fetched, none; the failure is caught
SwInstall(ok) ==
    /\ swReq.pc = "idle"
    /\ swCache' = IF ok THEN swCache \cup (STATIC_CACHE_URLS \cap Urls) ELSE swCache
    /\ lastSw' = SwEvent("install", NoSwRequest, "none")
    /\ UNCHANGED swReq

\* part_001 62-82: the fetch listener
FetchEvent(request) ==
    IF request.method # "GET"
    THEN /\ swReq.pc = "idle"
         /\ lastSw' = SwEvent("fetch event", [NoSwRequest EXCEPT !.url = request.url,
                                   !.mode = request.mode, !.method = request.method],
                              "not handled")
         /\ UNCHANGED <<swCache, swReq>>
    ELSE CallStrategy(Strategy(request), request)

\* part_001 147-149: networkFirstWithFallback(request) is called
CallNetworkFirstWithFallback(request) ==
    /\ request.method = "GET"
    /\ CallStrategy("networkFirstWithFallback", request)

\* part_001 92-100, 110-122, 149-156: fetch(request) is fulfilled with a
\* response, ok or not
NetworkRespond(ok) ==
    /\ swReq.pc = "fetching"
    /\ swCache' = CacheAfterResponse(swReq.strategy, swCache, swReq, ok)
    /\ swReq' = NoSwRequest
    /\ lastSw' = SwEvent("response", swReq, "network")

\* part_001 101-104, 123-143, 157-172: fetch(request) is rejected: the
\* network is unreachable
NetworkFail ==
    /\ swReq.pc = "fetching"
    /\ swReq' = NoSwRequest
    /\ lastSw' = SwEvent("offline", swReq, OfflineResult(swReq.strategy, swCache, swReq))
    /\ UNCHANGED swCache

\* ------------------------------------------------------ specifications
InitQueueVars ==
    /\ maxConcurrent \in 1..MaxConcurrentBound
    /\ running = 0
    /\ queue = <<>>
    /\ opState = [i \in Ops |-> "new"]
    /\ opKind = [i \in Ops |-> "async"]
    /\ calls = [i \in Ops |-> 0]
    /\ opResult = [i \in Ops |-> "none"]
    /\ nextOp = 1
    /\ eventLog = <<>>

InitCacheVars ==
    /\ cache = [k \in Keys |-> NoEntry]
    /\ dateNow = 0
    /\ lastGet = NoGet
    /\ lastCall = [op |-> "none", key |-> "none", data |-> "none", ttl |-> 0, at |-> 0,
                   before |-> cache, stats |-> NoStats]

\* api.js 11-15, 27-43: the constructor copies the config and registers the
\* default request interceptor
InitRetryVars ==
    /\ retryAttempts \in 1..MaxRetryAttempts
    /\ retryDelay \in 1..MaxRetryDelay
    /\ timeout \in 1..MaxTimeout
    /\ requestInterceptors = <<"headers">>
    /\ responseInterceptors = <<>>
    /\ now = 0
    /\ req = NewRequest

\* api.js 12, 17-24: the constructor sets this.baseURL
InitUrlVars(configs, hostnames) ==
    /\ config \in configs
    /\ hostname \in hostnames
    /\ baseURL = ConstructBaseURL(config, hostname)

InitApiVars == InitRetryVars /\ InitUrlVars({API_CONFIG}, {"localhost"})

\* api.js 367: cacheManager = new CacheManager(); no call of cachedGet yet
InitServiceVars ==
    /\ cgCalls = [id \in Calls |-> NoCachedGet]
    /\ lastDone = NoCachedGet
    /\ nextCall = 1
    /\ promisedUntil = [k \in Keys |-> -1]

\* components.js 757, 2489-2496: no loader, no action, the state the
\* constructor of FPLApp leaves
InitControllerVars ==
    /\ activeLoaders = {}
    /\ overlay = "none"
    /\ actions = [id \in ActionIds |-> NoAction]
    /\ nextAction = 1
    /\ filters = ""
    /\ debounce = FALSE
    /\ currentPageNumber = 1
    /\ playersData = NoData
    /\ rendered = 0
    /\ pagination = [display |-> "initial", prevDisabled |-> FALSE, nextDisabled |-> FALSE,
                     numbers |-> {}]
    /\ lastAction = [op |-> "none", id |-> 0, kind |-> "none", before |-> NoData]

\* no error handled yet
NoHandled == [error |-> [class |-> "none", name |-> "", status |-> 0, message |-> "",
                         data |-> NoPayload],
              notification |-> [message |-> "", type |-> "none"]]
InitErrorVars == handled = <<NoHandled, NoHandled>>

\* components.js 1287, 1559-1562: an empty Set and nothing saved
InitComparisonVars ==
    /\ selectedPlayers = {}
    /\ storage = {}
    /\ lastCmp = [op |-> "none", id |-> 0]

\* handleAsyncTeamLoad has not been called
InitPollVars(versions) ==
    poll \in [version : versions, pc : {"idle"}, attempts : {0}, requests : {0},
              outcome : {"none"}]

\* part_001 2: nothing cached, no request
InitWorkerVars ==
    /\ swCache = {}
    /\ swReq = NoSwRequest
    /\ lastSw = SwEvent("none", NoSwRequest, "none")

IdleUi ==
    /\ InitControllerVars /\ InitErrorVars /\ InitComparisonVars
    /\ InitPollVars({"components.js"}) /\ InitWorkerVars

IdleApp == InitServiceVars /\ IdleUi

\* a component that a specification does not exercise stays as constructed
\* with the smallest configuration
IdleQueue == InitQueueVars /\ maxConcurrent = 1
IdleApi == InitApiVars /\ retryAttempts = 1 /\ retryDelay = 1 /\ timeout = 1

InitQueue == InitQueueVars /\ InitCacheVars /\ IdleApi /\ IdleApp
InitCache == IdleQueue /\ InitCacheVars /\ IdleApi /\ IdleApp
InitApi == IdleQueue /\ InitCacheVars /\ InitApiVars /\ IdleApp
InitService == IdleQueue /\ InitCacheVars /\ IdleApi /\ InitServiceVars /\ IdleUi
\* the components of the page have one initial state each
InitController == IdleQueue /\ InitCacheVars /\ IdleApi /\ IdleApp
InitErrors == IdleQueue /\ InitCacheVars /\ IdleApi /\ IdleApp
InitComparison == IdleQueue /\ InitCacheVars /\ IdleApi /\ IdleApp
InitPoll ==
    /\ IdleQueue /\ InitCacheVars /\ IdleApi /\ InitServiceVars
    /\ InitControllerVars /\ InitErrorVars /\ InitComparisonVars /\ InitPollVars(AppVersions)
    /\ InitWorkerVars
InitWorker == IdleQueue /\ InitCacheVars /\ IdleApi /\ IdleApp
\* one retry configuration, every base URL configuration
InitApiUrl ==
    /\ IdleQueue /\ InitCacheVars /\ IdleApp
    /\ InitRetryVars /\ retryAttempts = 2 /\ retryDelay = 1 /\ timeout = 2
    /\ InitUrlVars([baseURL : BaseURLs], Hostnames)
\* one retry configuration, interceptors registered by the application
InitApiInterceptors ==
    IdleQueue /\ InitCacheVars /\ IdleApp /\ InitApiVars /\ retryAttempts = 2 /\ retryDelay = 1 /\ timeout = 2

NextQueue ==
    \/ \E kind \in {"async", "throws"} : Add(kind) /\ UNCHANGED <<varsCache, varsApi, varsApp>>
    \/ \E id \in Ops, ok \in BOOLEAN : Settle(id, ok) /\ UNCHANGED <<varsCache, varsApi, varsApp>>

SpecQueue == InitQueue /\ [][NextQueue]_vars

\* A running operation eventually settles (the hypothesis of the liveness claim).
SpecQueueFair ==
    SpecQueue /\ \A id \in Ops :
        WF_vars(\E ok \in BOOLEAN : Settle(id, ok) /\ UNCHANGED <<varsCache, varsApi, varsApp>>)


NextCache ==
    \/ \E k \in Keys : CacheGet(k) /\ UNCHANGED <<varsQueue, varsApi, varsApp>>
    \/ \E k \in Keys, d \in DataValues, ttl \in 0..MaxTTL : CacheSet(k, d, ttl) /\ UNCHANGED <<varsQueue, varsApi, varsApp>>
    \/ \E k \in Keys : CacheDelete(k) /\ UNCHANGED <<varsQueue, varsApi, varsApp>>
    \/ CacheClear /\ UNCHANGED <<varsQueue, varsApi, varsApp>>
    \/ CacheGetStats /\ UNCHANGED <<varsQueue, varsApi, varsApp>>
    \/ CacheTick /\ UNCHANGED <<varsQueue, varsApi, varsApp>>

SpecCache == InitCache /\ [][NextCache]_vars

\* what happens to a call that has been made
ApiSteps ==
    \/ \E resp \in Responses : FetchRespond(resp) /\ UNCHANGED <<varsQueue, varsCache, varsApp>>
    \/ FetchFail /\ UNCHANGED <<varsQueue, varsCache, varsApp>>
    \/ TimeoutFire /\ UNCHANGED <<varsQueue, varsCache, varsApp>>
    \/ DelayDone /\ UNCHANGED <<varsQueue, varsCache, varsApp>>
    \/ ReadDone /\ UNCHANGED <<varsQueue, varsCache, varsApp>>
    \/ ApiTick /\ UNCHANGED <<varsQueue, varsCache, varsApp>>

NextService ==
    \/ \E k \in ServiceKeys, ttl \in 1..MaxTTL : CachedGet(k, ttl) /\ UNCHANGED exceptService
    \/ \E id \in Calls, d \in DataValues : FetcherResolve(id, d) /\ UNCHANGED exceptService
    \/ \E id \in Calls, e \in FetcherErrors : FetcherReject(id, e) /\ UNCHANGED exceptService
    \/ \E k \in ServiceKeys : ServiceDelete(k) /\ UNCHANGED exceptService
    \/ ServiceClear /\ UNCHANGED exceptService
    \/ ServiceTick /\ UNCHANGED exceptService

SpecService == InitService /\ [][NextService]_vars

\* the players page: searches only
NextSearch ==
    \/ \E f \in Filters : FilterChange(f) /\ UNCHANGED exceptController
    \/ DebounceFire /\ UNCHANGED exceptController
    \/ ClearFilters /\ UNCHANGED exceptController
    \/ LoadPlayersPage /\ UNCHANGED exceptController
    \/ ClickPrev /\ UNCHANGED exceptController
    \/ ClickNext /\ UNCHANGED exceptController
    \/ \E i \in 1..MaxPages : ClickPageNumber(i) /\ UNCHANGED exceptController
    \/ \E id \in ActionIds : SearchResolve(id) /\ UNCHANGED exceptController
    \/ \E id \in ActionIds : SearchReject(id) /\ UNCHANGED exceptController

SpecSearch == InitController /\ [][NextSearch]_vars

\* every action that registers a loader, with the searches of one filter and page
NextLoaders ==
    \/ \E kind \in ActionKinds : StartAction(kind) /\ UNCHANGED exceptController
    \/ \E id \in ActionIds, ok \in BOOLEAN : ActionSettle(id, ok) /\ UNCHANGED exceptController
    \/ ClearFilters /\ UNCHANGED exceptController
    \/ \E id \in ActionIds : SearchResolve(id) /\ UNCHANGED exceptController
    \/ \E id \in ActionIds : SearchReject(id) /\ UNCHANGED exceptController

SpecLoaders == InitController /\ [][NextLoaders]_vars

NextErrors == \E error \in Errors : HandleError(error) /\ UNCHANGED exceptErrors

SpecErrors == InitErrors /\ [][NextErrors]_vars

NextComparison ==
    \/ \E player \in Players : ComparisonAdd(player) /\ UNCHANGED exceptComparison
    \/ \E id \in PlayerIds : ComparisonRemove(id) /\ UNCHANGED exceptComparison
    \/ \E player \in Players : ComparisonToggle(player) /\ UNCHANGED exceptComparison
    \/ ComparisonClear /\ UNCHANGED exceptComparison
    \/ ComparisonInit /\ UNCHANGED exceptComparison

SpecComparison == InitComparison /\ [][NextComparison]_vars

NextPoll ==
    \/ HandleAsyncTeamLoad /\ UNCHANGED exceptPoll
    \/ \E status \in TaskStatuses : StatusRespond(status) /\ UNCHANGED exceptPoll
    \/ StatusError /\ UNCHANGED exceptPoll
    \/ \E ok \in BOOLEAN : TeamRespond(ok) /\ UNCHANGED exceptPoll
    \/ PollTimerFire /\ UNCHANGED exceptPoll

SpecPoll == InitPoll /\ [][NextPoll]_vars

NextWorker ==
    \/ \E ok \in BOOLEAN : SwInstall(ok) /\ UNCHANGED exceptWorker
    \/ \E request \in Requests : FetchEvent(request) /\ UNCHANGED exceptWorker
    \/ \E request \in Requests : CallNetworkFirstWithFallback(request) /\ UNCHANGED exceptWorker
    \/ \E ok \in BOOLEAN : NetworkRespond(ok) /\ UNCHANGED exceptWorker
    \/ NetworkFail /\ UNCHANGED exceptWorker

SpecWorker == InitWorker /\ [][NextWorker]_vars

NextApi ==
    \/ \E path \in Paths : ApiRequest(path) /\ UNCHANGED <<varsQueue, varsCache, varsApp>>
    \/ ApiSteps

SpecApi == InitApi /\ [][NextApi]_vars

SpecApiUrl == InitApiUrl /\ [][NextApi]_vars

NextApiInterceptors ==
    \/ ApiRequest("/teams/") /\ UNCHANGED <<varsQueue, varsCache, varsApp>>
    \/ ApiSteps
    \/ \E n \in InterceptorNames : AddRequestInterceptor(n) /\ UNCHANGED <<varsQueue, varsCache, varsApp>>
    \/ \E n \in InterceptorNames : AddResponseInterceptor(n) /\ UNCHANGED <<varsQueue, varsCache, varsApp>>
    \/ InterceptorDone /\ UNCHANGED <<varsQueue, varsCache, varsApp>>

SpecApiInterceptors == InitApiInterceptors /\ [][NextApiInterceptors]_vars

\* ------------------------------------------------ claims: RequestQueue
\* position of an event in the history (0 when it has not happened)
Pos(ev) ==
    IF \E i \in 1..Len(eventLog) : eventLog[i] = ev
    THEN CHOOSE i \in 1..Len(eventLog) : eventLog[i] = ev
    ELSE 0

Started(id) == Pos(<<"start", id>>) > 0
Settled(id) == Pos(<<"settle", id>>) > 0

\* C1: for maxConcurrent = N >= 1, after any sequence of add() calls and
\* settlements the number of operations started and not yet settled never
\* exceeds N, and `running` equals that number and is never negative.
C1_RunningBounded ==
    /\ running = Cardinality({id \in Ops : opState[id] = "running"})
    /\ {id \in Ops : opState[id] = "running"} = {id \in Ops : Started(id) /\ ~Settled(id)}
    /\ running <= maxConcurrent
    /\ running >= 0

\* C1 witness: the limiter is full, an operation waits, and one has settled
C1_Witness ==
    /\ running = maxConcurrent
    /\ queue # <<>>
    /\ \E id \in Ops : opState[id] \in {"resolved", "rejected"}

\* C2: every operation passed to add() is eventually started, provided every
\* started operation eventually settles, whether earlier ones succeeded or failed.
C2_EventuallyStarted ==
    \A id \in Ops : (opState[id] = "queued") ~> Started(id)

\* C2 witness: an operation that waited behind a failed operation has started
C2_Witness ==
    \E a, b \in Ops :
        /\ opState[a] = "rejected"
        /\ Started(b)
        /\ Pos(<<"add", b>>) < Pos(<<"settle", a>>)
        /\ Pos(<<"settle", a>>) < Pos(<<"start", b>>)

\* C3: operations start in the order they were passed to add() (ids are
\* given in submission order); with maxConcurrent = 1 each operation starts
\* only after the one submitted before it has settled.
C3_FifoStart ==
    \A a, b \in Ops :
        (a < b /\ Started(b)) =>
            /\ Started(a)
            /\ Pos(<<"start", a>>) < Pos(<<"start", b>>)
            /\ (maxConcurrent = 1 /\ b = a + 1) =>
                   (Settled(a) /\ Pos(<<"settle", a>>) < Pos(<<"start", b>>))

\* C3 witness: limit 1, three submissions made before the first settled,
\* all three started
C3_Witness ==
    /\ maxConcurrent = 1
    /\ Started(1) /\ Started(2) /\ Started(3)
    /\ Pos(<<"add", 3>>) < Pos(<<"settle", 1>>)

\* the number of operations running just before the event at position p
RunningBefore(p) ==
    Cardinality({i \in 1..(p - 1) : eventLog[i][1] = "start"})
        - Cardinality({i \in 1..(p - 1) : eventLog[i][1] = "settle"})

\* the operations waiting in the queue just after the event at position p
WaitingAfter(p) ==
    {id \in Ops : /\ Pos(<<"add", id>>) > 0 /\ Pos(<<"add", id>>) <= p
                  /\ ~(Started(id) /\ Pos(<<"start", id>>) <= p)}

\* C17: RequestQueue is work-conserving: whenever control is back in the
\* event loop the queue is non-empty only if running = maxConcurrent; add()
\* starts the operation in the same step when fewer than maxConcurrent are
\* running, and when a running operation settles, by success or by failure,
\* the head of the queue is started in that same step, ahead of any
\* operation added later.
C17_WorkConserving ==
    /\ queue # <<>> => running = maxConcurrent
    /\ \A p \in 1..Len(eventLog) :
          /\ (eventLog[p][1] = "add" /\ RunningBefore(p) < maxConcurrent) =>
                 (p < Len(eventLog) /\ eventLog[p + 1] = <<"start", eventLog[p][2]>>)
          /\ (eventLog[p][1] = "settle" /\ WaitingAfter(p) # {}) =>
                 /\ p < Len(eventLog)
                 /\ eventLog[p + 1][1] = "start"
                 /\ \A id \in WaitingAfter(p) : eventLog[p + 1][2] <= id
          /\ eventLog[p][1] = "start" =>
                 /\ p > 1
                 /\ eventLog[p - 1] = <<"add", eventLog[p][2]>> \/ eventLog[p - 1][1] = "settle"

\* C17 witness: two operations waited behind a full limiter; the running
\* one failed and the older of the two was started in the step of that
\* failure, the younger still waiting
C17_Witness ==
    \E p \in 1..Len(eventLog) :
        /\ eventLog[p][1] = "settle"
        /\ opState[eventLog[p][2]] = "rejected"
        /\ Cardinality(WaitingAfter(p)) = 2
        /\ p + 1 = Len(eventLog)
        /\ eventLog[p + 1][1] = "start"
        /\ queue # <<>> /\ running = maxConcurrent

\* how many times an event is in the history
Count(ev) == Cardinality({i \in 1..Len(eventLog) : eventLog[i] = ev})

\* C18: each operation passed to add() is invoked exactly once and moves
\* queued -> running -> settled in that order, its queue record being
\* removed at dispatch; the promise returned by add() is settled exactly
\* once, resolved when the operation succeeds and rejected when it fails
\* (by a rejected promise or by throwing), whatever the other operations do.
C18_ExactlyOnce ==
    \A id \in Ops :
        /\ calls[id] = IF Started(id) THEN 1 ELSE 0
        /\ Count(<<"add", id>>) <= 1 /\ Count(<<"start", id>>) <= 1 /\ Count(<<"settle", id>>) <= 1
        /\ Started(id) => (Pos(<<"add", id>>) > 0 /\ Pos(<<"add", id>>) < Pos(<<"start", id>>))
        /\ Settled(id) => (Started(id) /\ Pos(<<"start", id>>) < Pos(<<"settle", id>>))
        /\ (opState[id] = "new") <=> (Pos(<<"add", id>>) = 0)
        /\ (opState[id] = "queued") <=> (Pos(<<"add", id>>) > 0 /\ ~Started(id))
        /\ (opState[id] = "running") <=> (Started(id) /\ ~Settled(id))
        /\ (opState[id] \in {"resolved", "rejected"}) <=> Settled(id)
        /\ Cardinality({i \in 1..Len(queue) : queue[i] = id}) = IF opState[id] = "queued" THEN 1 ELSE 0
        /\ (opState[id] = "resolved") <=> (opResult[id] = "value")
        /\ (opState[id] = "rejected") <=>
               (opResult[id] = "error" \/ (opKind[id] = "throws" /\ Started(id)))

\* C18 witness: four operations: one succeeded, one failed with a rejected
\* promise, one threw when invoked, and the one added last is still running
C18_Witness ==
    /\ \E a, b, c, d \in Ops :
          /\ opState[a] = "resolved" /\ calls[a] = 1
          /\ opState[b] = "rejected" /\ opKind[b] = "async" /\ calls[b] = 1
          /\ opState[c] = "rejected" /\ opKind[c] = "throws" /\ calls[c] = 1
          /\ opState[d] = "running" /\ Pos(<<"settle", b>>) < Pos(<<"start", d>>)

\* ------------------------------------------------ claims: CacheManager
\* C4 (as amended): get(key) returns the stored value whenever the current
\* time is at or before the entry's expiry (time of set + ttl), the instant
\* now = expiry included, and returns null whenever the time is after it.
C4_GetVisibleThroughExpiry ==
    (lastGet # NoGet /\ lastGet.found # NoEntry) =>
        /\ (lastGet.at <= lastGet.found.expiry) => lastGet.result = lastGet.found.data
        /\ (lastGet.at > lastGet.found.expiry) => lastGet.result = Null

\* C4 witness: a get at the very instant of expiry that returned a stored,
\* non-null value
C4_Witness ==
    /\ lastGet # NoGet /\ lastGet.found # NoEntry
    /\ lastGet.at = lastGet.found.expiry
    /\ lastGet.result = lastGet.found.data
    /\ lastGet.result # Null

\* C4 as stated: get(key) returns the stored value whenever now < expiry and
\* null whenever now >= expiry, including the instant at which now = expiry.
C4_Original ==
    (lastGet # NoGet /\ lastGet.found # NoEntry) =>
        /\ (lastGet.at < lastGet.found.expiry) => lastGet.result = lastGet.found.data
        /\ (lastGet.at >= lastGet.found.expiry) => lastGet.result = Null

\* C19: after set(k, v1, t1) followed by set(k, v2, t2) the cache holds one
\* entry for k, with value v2 and expiry equal to the time of the second set
\* plus t2; the earlier value and expiry have no remaining effect on get(k),
\* also when t2 < t1 or when the first entry had already expired: at every
\* later time get(k) returns v2 up to that expiry and null after it.
C19_SetOverwrites ==
    lastCall.op = "set" =>
        LET k == lastCall.key
            expiry == lastCall.at + lastCall.ttl
        IN /\ cache[k] = [data |-> lastCall.data, expiry |-> expiry]
           /\ \A other \in Keys \ {k} : cache[other] = lastCall.before[other]
           /\ \A t \in dateNow..(MaxDateNow + MaxTTL + 1) :
                  /\ GetResult(cache, k, t) = IF t > expiry THEN Null ELSE lastCall.data
                  /\ GetCache(cache, k, t)[k] = IF t > expiry THEN NoEntry ELSE cache[k]

\* C19 witness: a second set on a key whose entry was live, with another
\* value and a shorter ttl: the new expiry is earlier than the old one
C19_Witness ==
    /\ lastCall.op = "set"
    /\ lastCall.before[lastCall.key] # NoEntry
    /\ lastCall.before[lastCall.key].expiry >= lastCall.at
    /\ lastCall.before[lastCall.key].data = "v1"
    /\ cache[lastCall.key].data = "v2"
    /\ cache[lastCall.key].expiry < lastCall.before[lastCall.key].expiry

\* C20: an entry leaves the map only through get() on a key whose expiry has
\* passed, delete(key) or clear(), and changes only through set() on its key:
\* the passage of time alone, get() on a live or on a different key and
\* getStats() never remove or alter an entry, and get() on an expired key
\* removes that key only.
C20_OnlyLazyEviction ==
    /\ \A k \in Keys :
          cache[k] # lastCall.before[k] =>
              \/ lastCall.op = "set" /\ lastCall.key = k
              \/ /\ lastCall.op = "get" /\ lastCall.key = k
                 /\ lastCall.before[k] # NoEntry
                 /\ lastCall.at > lastCall.before[k].expiry
                 /\ cache[k] = NoEntry
              \/ lastCall.op = "delete" /\ lastCall.key = k /\ cache[k] = NoEntry
              \/ lastCall.op = "clear" /\ cache[k] = NoEntry
    /\ lastCall.op \in {"tick", "getStats", "none"} => cache = lastCall.before
    /\ lastCall.op = "getStats" =>
          lastCall.stats.total = Cardinality({k \in Keys : cache[k] # NoEntry})

\* C20 witness: both keys hold an expired entry that time and getStats()
\* left in the map; get() on one of them has removed that one only
C20_Witness ==
    /\ lastCall.op = "get"
    /\ lastCall.before[lastCall.key] # NoEntry
    /\ cache[lastCall.key] = NoEntry
    /\ \E other \in Keys \ {lastCall.key} :
          /\ cache[other] # NoEntry
          /\ dateNow > cache[other].expiry

\* ------------------------------------------------ claims: APIClient
Done == req.pc = "done"
Rejected == req.outcome.kind = "rejected"
NFetches == Len(req.fetches)
\* the body of the final response decodes (json() does not throw)
Decodes(resp) == ~(IsJson(resp.contentType) /\ JsonFails(resp.body))
TimeoutError == APIError("Request timeout", 408, NullData)

\* C5 as stated: once the timeout timer has fired and aborted the current
\* attempt, request() starts no further fetch attempt and waits for no retry
\* delay before failing.
C5_Original ==
    req.abortedAttempt > 0 =>
        /\ \A i \in 1..NFetches : ~req.fetches[i].afterAbort
        /\ \A j \in 1..Len(req.delays) : ~req.delays[j].afterAbort

\* C6 as stated: every call to request() settles no later than `timeout` ms
\* after it was issued, whatever the responses, failures and retry delays.
C6_Original ==
    /\ (req.pc \in {"fetching", "delaying", "reading"}) => now <= timeout
    /\ Done => req.outcome.at <= timeout

\* every fetch attempt made was answered with a 5xx status
AllAttempts5xx ==
    /\ NFetches >= 1
    /\ \A i \in 1..NFetches : req.fetches[i].status \in 500..599

\* C7 (as amended): with retryAttempts = R, a request whose every attempt
\* returns a 5xx status makes exactly R fetch attempts and then rejects; the
\* error is an APIError whose status is that of the last response when the
\* body of that response decodes, and the parse error of response.json()
\* when it is a JSON-typed body that does not parse.
C7_RetriesExhausted ==
    /\ AllAttempts5xx => NFetches <= retryAttempts
    /\ (Done /\ AllAttempts5xx) =>
        /\ NFetches = retryAttempts
        /\ Rejected
        /\ Decodes(req.response) =>
              /\ req.outcome.error.name = "APIError"
              /\ req.outcome.error.status = req.fetches[NFetches].status
        /\ ~Decodes(req.response) => req.outcome.error = ParseError

\* C7 witness: 503 three times with R = 3 ended in an APIError with status 503
C7_Witness ==
    /\ Done /\ AllAttempts5xx
    /\ retryAttempts = 3 /\ NFetches = 3
    /\ req.outcome.error.name = "APIError"
    /\ req.outcome.error.status = 503

\* C7 as stated: ... and then rejects with an APIError whose status is that
\* of the last response.
C7_Original ==
    (Done /\ AllAttempts5xx) =>
        /\ NFetches = retryAttempts
        /\ Rejected
        /\ req.outcome.error.name = "APIError"
        /\ req.outcome.error.status = req.fetches[NFetches].status

\* the first response of the request has a status in 400..499
FirstIs4xx == NFetches >= 1 /\ req.fetches[1].status \in 400..499

\* C8 (as amended): a request whose first attempt is answered with a status
\* in 400..499 makes exactly one fetch attempt, waits for no retry delay, and
\* rejects; the error is an APIError carrying that status when the body
\* decodes, and the parse error of response.json() when it is a JSON-typed
\* body that does not parse.  No attempt and no delay ever follows a 4xx
\* response.
C8_ClientErrorNotRetried ==
    /\ \A i \in 1..NFetches :
          req.fetches[i].status \in 400..499 => (i = NFetches /\ Len(req.delays) = i - 1)
    /\ FirstIs4xx =>
        /\ NFetches = 1
        /\ req.delays = <<>>
        /\ Done =>
            /\ Rejected
            /\ Decodes(req.response) =>
                  /\ req.outcome.error.name = "APIError"
                  /\ req.outcome.error.status = req.fetches[1].status
            /\ ~Decodes(req.response) => req.outcome.error = ParseError

\* C8 witness: with retries available a 404 failed on the first attempt
C8_Witness ==
    /\ Done /\ FirstIs4xx
    /\ retryAttempts >= 2
    /\ req.fetches[1].status = 404
    /\ req.outcome.error.name = "APIError"
    /\ req.outcome.error.status = 404

\* C8 as stated: ... and rejects with an APIError carrying that status.
C8_Original ==
    (Done /\ FirstIs4xx) =>
        /\ NFetches = 1
        /\ req.delays = <<>>
        /\ Rejected
        /\ req.outcome.error.name = "APIError"
        /\ req.outcome.error.status = req.fetches[1].status

\* C9: if the timeout elapses before any attempt has produced the response
\* of the request (the timeout timer fires), request() rejects with an
\* APIError with status 408 and message 'Request timeout'; it never resolves
\* then, and the raw abort error is never surfaced.
C9_TimeoutRejects408 ==
    /\ req.outcome.error.name # "AbortError"
    /\ (Done /\ req.aborted) =>
        /\ Rejected
        /\ req.outcome.error = TimeoutError

\* C9 witness: no attempt produced a response, the timer fired during the
\* first attempt, and the call has failed after further attempts
C9_Witness ==
    /\ Done /\ req.aborted
    /\ req.abortedAttempt = 1
    /\ NFetches >= 2
    /\ \A i \in 1..NFetches : req.fetches[i].error = "AbortError"

\* C10 as stated: for no server 408 response, whatever its body and status
\* text, does request() reject with an error equal to the timeout error in
\* all of name, message, status and data.
C10_Original ==
    ~ /\ Done
      /\ ~req.aborted
      /\ req.response.status = 408
      /\ Rejected
      /\ req.outcome.error = TimeoutError

Non5xxAt(i) == req.fetches[i].status # NoStatus /\ req.fetches[i].status < 500

\* C12: if attempts 1..k-1 (k <= retryAttempts) fail with a transport error
\* or a 5xx response and attempt k returns a non-5xx response before the
\* timeout, request() makes exactly k fetch attempts and its outcome is that
\* of attempt k alone: the decoded body of that response when its status is
\* 2xx, the error built from that response otherwise; none of the earlier
\* failures is surfaced.
C12_OutcomeOfLastAttempt ==
    /\ \A i \in 1..NFetches : Non5xxAt(i) => i = NFetches
    /\ (Done /\ NFetches >= 1 /\ Non5xxAt(NFetches)) =>
        LET resp == req.response
            k == NFetches
        IN /\ k <= retryAttempts
           /\ Len(req.delays) = k - 1
           /\ \A i \in 1..(k - 1) :
                  req.fetches[i].error = "TypeError" \/ req.fetches[i].status >= 500
           /\ resp.status = req.fetches[k].status
           /\ req.outcome.kind = IF Decodes(resp) /\ Ok(resp.status) THEN "resolved" ELSE "rejected"
           /\ req.outcome.value = IF Decodes(resp) /\ Ok(resp.status) THEN Decode(resp) ELSE NullData
           /\ req.outcome.error =
                  IF ~Decodes(resp) THEN ParseError
                  ELSE IF Ok(resp.status) THEN NoError
                  ELSE APIError(ErrorMessage(resp, Decode(resp)), resp.status, Decode(resp))

\* C12 witness: a 503, then a transport failure, then a 200 whose body the
\* call resolved with
C12_Witness ==
    /\ Done /\ NFetches = 3
    /\ req.fetches[1].status = 503
    /\ req.fetches[2].error = "TypeError"
    /\ req.fetches[3].status = 200
    /\ req.outcome.kind = "resolved"
    /\ req.outcome.value = [type |-> "object", val |-> "{}", via |-> <<>>]

\* the decoded body of the final response as the response interceptors return it
InterceptedBody == RunResponseInterceptors(Decode(req.response), 1)

\* C13 (as amended): when the body of the final response decodes and its
\* status is not 2xx, request() rejects with an APIError whose status is the
\* response status and whose data is the decoded body as returned by the
\* response interceptors; when it decodes and the status is 2xx, request()
\* resolves with that body; when the response is JSON-typed with a body that
\* does not parse, request() rejects with the parse error whatever the status.
C13_FinalResponseOutcome ==
    (Done /\ req.response # NoResponse) =>
        LET resp == req.response
        IN /\ (Decodes(resp) /\ ~Ok(resp.status)) =>
                  /\ Rejected
                  /\ req.outcome.error.name = "APIError"
                  /\ req.outcome.error.status = resp.status
                  /\ req.outcome.error.data = InterceptedBody
                  /\ req.outcome.error.data.val = resp.body
                  /\ req.outcome.value = NullData
           /\ (Decodes(resp) /\ Ok(resp.status)) =>
                  /\ req.outcome.kind = "resolved"
                  /\ req.outcome.value = InterceptedBody
                  /\ req.outcome.value.val = resp.body
                  /\ req.outcome.error = NoError
           /\ ~Decodes(resp) => (Rejected /\ req.outcome.error = ParseError)

\* C13 witness: a 404 whose JSON body passed through two response
\* interceptors before it became the data of the APIError
C13_Witness ==
    /\ Done /\ Rejected
    /\ req.response.status = 404
    /\ req.response.body = "{\"message\":\"Not found.\"}"
    /\ IsJson(req.response.contentType)
    /\ Len(responseInterceptors) = 2
    /\ req.outcome.error.status = 404
    /\ req.outcome.error.data.via = responseInterceptors

\* C13 as stated: a non-2xx final status rejects with an APIError whose
\* status equals the response status; a 2xx final status resolves.
C13_Original ==
    (Done /\ req.response # NoResponse) =>
        /\ ~Ok(req.response.status) =>
               /\ Rejected
               /\ req.outcome.error.name = "APIError"
               /\ req.outcome.error.status = req.response.status
        /\ Ok(req.response.status) => req.outcome.kind = "resolved"

\* C14 as stated: the URL fetched for request(path) is config.baseURL
\* followed by path, where config is the object passed to the constructor:
\* changing API_CONFIG.baseURL changes the base URL of every request.
C14_Original ==
    \A i \in 1..NFetches :
        /\ req.fetches[i].config.url.base = config.baseURL
        /\ req.fetches[i].config.url.path = req.config.url.path

\* C15: the wait inserted before retry number k (after the k-th failed
\* attempt, k = 1..retryAttempts-1) is retryDelay * k, for 5xx responses and
\* for transport failures alike; attempt k+1 is made when that wait is over;
\* no wait precedes the first attempt and none follows the last attempt.
C15_RetryDelays ==
    /\ NFetches >= 1 => req.fetches[1].at = 0
    /\ Len(req.delays) <= retryAttempts - 1
    /\ Len(req.delays) = IF req.pc = "delaying" THEN NFetches
                         ELSE IF NFetches = 0 THEN 0 ELSE NFetches - 1
    /\ \A k \in 1..Len(req.delays) :
          /\ req.delays[k].ms = retryDelay * k
          /\ req.delays[k].at >= req.fetches[k].at
          /\ req.fetches[k].status >= 500 \/ req.fetches[k].error \in {"TypeError", "AbortError"}
          /\ k + 1 <= NFetches => req.fetches[k + 1].at = req.delays[k].at + retryDelay * k

\* C15 witness: a 503 and then a transport failure, each followed by its
\* wait, and the third and last attempt made when the second wait was over
C15_Witness ==
    /\ Done /\ retryAttempts = 3 /\ NFetches = 3
    /\ req.fetches[1].status = 503
    /\ req.fetches[2].error = "TypeError"
    /\ Len(req.delays) = 2
    /\ req.delays[2].ms = 2 * retryDelay
    /\ req.fetches[3].at = req.delays[2].at + 2 * retryDelay

\* what request() hands to its caller as data: the resolved value or the
\* data of the error
SurfacedData ==
    IF req.outcome.kind = "resolved" THEN req.outcome.value ELSE req.outcome.error.data

\* C16: request interceptors run one at a time in the order they were
\* registered (the default-header interceptor of the constructor first),
\* each awaited and each receiving the config returned by its predecessor,
\* and all of them complete before the first fetch attempt is issued;
\* response interceptors run in registration order on the decoded result of
\* the final response.
C16_InterceptorOrder ==
    /\ requestInterceptors # <<>> /\ requestInterceptors[1] = "headers"
    /\ Len(req.intercepts) <= Len(requestInterceptors)
    /\ \A j \in 1..Len(req.intercepts) :
          /\ req.intercepts[j].name = requestInterceptors[j]
          /\ req.intercepts[j].received.via = SubSeq(requestInterceptors, 1, j - 1)
          /\ j > 1 => req.intercepts[j].received =
                          ApplyRequestInterceptor(req.intercepts[j - 1].name,
                                                  req.intercepts[j - 1].received)
    /\ req.pc = "intercepting" =>
          /\ NFetches = 0
          /\ Len(req.intercepts) = req.idx
          /\ req.config = req.intercepts[req.idx].received
    /\ NFetches >= 1 =>
          /\ Len(req.intercepts) = Len(requestInterceptors)
          /\ req.config.via = requestInterceptors
          /\ \A i \in 1..NFetches : req.fetches[i].config = req.config
    /\ (Done /\ req.response # NoResponse /\ Decodes(req.response)) =>
          /\ SurfacedData.via = responseInterceptors
          /\ SurfacedData.val = req.response.body

\* C16 witness: the default interceptor and then an async one ran before the
\* only fetch, whose 200 response passed through two different response
\* interceptors in the order of their registration
C16_Witness ==
    /\ Done /\ NFetches = 1
    /\ requestInterceptors = <<"headers", "auth">>
    /\ req.fetches[1].config.via = <<"headers", "auth">>
    /\ req.fetches[1].config.headers = {"Content-Type", "Accept", "Authorization"}
    /\ responseInterceptors = <<"trace", "auth">>
    /\ req.outcome.kind = "resolved"
    /\ req.outcome.value.via = <<"trace", "auth">>

\* ----------------------------------------- claims: CachedApiService
\* the calls of cachedGet that are waiting for their fetcher on a key
InFlight(k) == {id \in Calls : cgCalls[id].pc = "awaiting" /\ cgCalls[id].key = k}

\* C21 as stated: if cachedGet(key, fetcher, ttl) completed successfully at
\* time t with any value returned by the fetcher, and the key has not been
\* deleted or cleared since, every cachedGet for that key started before
\* t + ttl returns the stored value without invoking its fetcher.
C21_Original ==
    /\ \A id \in Calls : cgCalls[id].pc = "awaiting" => ~cgCalls[id].promised
    /\ (lastDone.pc = "returned" /\ lastDone.promised) =>
           (~lastDone.invoked /\ lastDone.result = lastDone.stored)

\* C22 as stated: for a given key cachedGet never has two fetcher
\* invocations in flight at once.
C22_Original ==
    \A k \in Keys : Cardinality(InFlight(k)) <= 1

\* C25 (as amended): if the fetcher passed to cachedGet rejects, cachedGet
\* rejects with the same error and has stored nothing: the step of the
\* rejection leaves the map as it is, and the only change the call has made
\* is that its initial get() removed the entry of the key when that entry
\* had expired.  Unless another call has stored a value for the key in the
\* meantime, the key has no value to serve and the next cachedGet for it
\* invokes the fetcher again.
C25_FetcherFailure ==
    /\ lastCall.op = "reject" => (cache = lastCall.before /\ lastDone.pc = "rejected")
    /\ lastCall.op = "get" =>
          \A k \in Keys :
              cache[k] # lastCall.before[k] =>
                  /\ k = lastCall.key /\ cache[k] = NoEntry
                  /\ lastCall.at > lastCall.before[k].expiry
    /\ \A id \in Calls : cgCalls[id].evicted => cgCalls[id].stored # "none"
    /\ lastDone.pc = "rejected" =>
          /\ lastDone.invoked
          /\ lastDone.error = lastDone.thrown
          /\ lastDone.result = "none"
          /\ ~lastDone.touched =>
                /\ cache[lastDone.key] = NoEntry \/ cache[lastDone.key].data = Null
                /\ \A t \in dateNow..MaxDateNow : IsMiss(cache, lastDone.key, t)

\* C25 witness: the key held an expired entry; the call removed it, its
\* fetcher failed, and the key is left without an entry
C25_Witness ==
    /\ lastDone.pc = "rejected"
    /\ lastDone.evicted /\ lastDone.stored = "v1"
    /\ ~lastDone.touched
    /\ lastDone.error = "APIError"
    /\ cache[lastDone.key] = NoEntry

\* C25 as stated: ... the cache is left exactly as it was before the call
\* (no entry is created or altered for the key).
C25_Original ==
    lastDone.pc = "rejected" => ~lastDone.evicted

\* ------------------------------------------------- claims: FPLApp
IsSearch(id) == actions[id].pc = "awaiting" /\ actions[id].kind = "handlePlayerSearch"

\* C23: this.playersData and the rendered player list are those of the player
\* fetch that was fulfilled last: the response of a search that has just
\* arrived becomes playersData and is rendered, whether or not a search
\* issued later has already been answered, and a failed fetch, like every
\* other step, leaves playersData as it was.
C23_LastResponseWins ==
    /\ rendered = playersData.id
    /\ (lastAction.op = "resolve" /\ lastAction.kind = "handlePlayerSearch")
           => playersData.id = lastAction.id
    /\ ~(lastAction.op = "resolve" /\ lastAction.kind = "handlePlayerSearch")
           => playersData = lastAction.before

\* the response of a search arrives after that of a search issued later
C23_Witness ==
    /\ lastAction.op = "resolve"
    /\ lastAction.kind = "handlePlayerSearch"
    /\ lastAction.id < lastAction.before.id
    /\ playersData.id = lastAction.id

\* C29 as stated: this.currentPageNumber stays within 1..totalPages of the
\* result set on display, and every page that handlePlayerSearch requests is
\* one of the pages 1..totalPages of the result set it asks for.
C29_Original ==
    /\ playersData # NoData => currentPageNumber \in 1..CeilDiv20(playersData.count)
    /\ \A id \in ActionIds :
           IsSearch(id) => actions[id].page \in 1..TotalPagesOf(actions[id].filter)

\* ------------------------------------------------- claims: ErrorHandler
BothAPIErrors ==
    /\ handled[1].error.class = "APIError"
    /\ handled[2].error.class = "APIError"

SameStatusAndMessage ==
    /\ handled[1].error.status = handled[2].error.status
    /\ handled[1].error.message = handled[2].error.message

\* C24: the notification (message and type) that handle produces for an
\* APIError is a function of error.status, error.message and, when the
\* status is 400, error.data.message: two APIErrors that agree on these get
\* the same notification, whatever else their data payloads hold.
C24_NotificationInputs ==
    (/\ BothAPIErrors
     /\ SameStatusAndMessage
     /\ handled[1].error.status = 400
            => handled[1].error.data.message = handled[2].error.data.message)
        => handled[1].notification = handled[2].notification

\* two APIErrors of status 400 with different payloads and the same
\* data.message have been handled
C24_Witness ==
    /\ BothAPIErrors
    /\ SameStatusAndMessage
    /\ handled[1].error.status = 400
    /\ handled[1].error.data # handled[2].error.data
    /\ handled[1].error.data.message = handled[2].error.data.message
    /\ handled[1].error.data.message # ""
    /\ handled[1].notification = handled[2].notification

\* C24 as stated: equal status and message give the same notification
C24_Original ==
    (BothAPIErrors /\ SameStatusAndMessage)
        => handled[1].notification = handled[2].notification

\* ------------------------------------------------- claims: LoadingManager
\* C26 as stated: the loader of an action that has finished, with its fetch
\* fulfilled or rejected, is no longer registered; hence with no action in
\* flight activeLoaders is empty and the overlay hidden; and the overlay is
\* shown while a loader is registered.
C26_Original ==
    /\ \A id \in ActionIds : actions[id].pc = "done" => id \notin activeLoaders
    /\ (\A id \in ActionIds : actions[id].pc # "awaiting")
           => (activeLoaders = {} /\ overlay = "none")
    /\ activeLoaders # {} => overlay = "flex"

\* ------------------------------------------------- claims: PlayerComparison
\* C27 as stated: selectedPlayers holds at most maxPlayers entries and never
\* two entries with the same fpl_id, and after remove(id) isSelected(id) is
\* false.
C27_Original ==
    /\ Cardinality(selectedPlayers) <= maxPlayers
    /\ \A p, q \in selectedPlayers : p.fpl_id = q.fpl_id => p = q
    /\ lastCmp.op = "remove" => ~IsSelected(selectedPlayers, lastCmp.id)

\* ------------------------------------------ claims: handleAsyncTeamLoad
\* C28 as stated: at most maxAttempts (30) status requests are made for a
\* task, and no further poll is scheduled after SUCCESS, FAILURE, a request
\* error or the 30th poll.
C28_Original ==
    /\ poll.requests <= maxAttempts
    /\ poll.pc = "timer" => poll.requests < maxAttempts
    /\ poll.pc = "stopped" => poll.outcome # "none"

\* ------------------------------------------------- claims: service worker
\* C30 as stated: with the network unreachable, a navigation request is
\* answered with the cached copy of the request if there is one, else with
\* the cached '/' page if there is one, else with the inline offline page;
\* an API GET request is answered with the cached response or else with the
\* synthetic JSON response of status 503.
C30_Original ==
    /\ (/\ lastSw.op = "offline"
        /\ lastSw.mode = "navigate"
        /\ ~UrlIncludes(lastSw.url, "/api/"))
           => lastSw.outcome = (IF lastSw.url \in swCache THEN "cached"
                                ELSE IF "/" \in swCache THEN "cached /"
                                ELSE "offline page")
    /\ (lastSw.op = "offline" /\ UrlIncludes(lastSw.url, "/api/"))
           => lastSw.outcome = (IF lastSw.url \in swCache THEN "cached" ELSE "json 503")

====
